---- MODULE Spec2Model ----
(***************************************************************************)
(* A model of the game-OCR overlay: the frame-change detector              *)
(* (ChangeDetector), the detection reducer of MeikiOCR                     *)
(* (mergeOverlappingBoxes, detectTextRegions), the line filter             *)
(* (filterOCRLine) and the orchestration glue of index.js (performOCR and  *)
(* the connection-icon click handler).                                     *)
(*                                                                         *)
(* Numbers: a change fraction is the rational num/den (diffCount over      *)
(* totalPixels); thresholds are kept in thousandths, and a comparison      *)
(* against a threshold cross-multiplies, so no rounding enters.  A 0/0     *)
(* fraction (NaN in the code) compares false both ways, as NaN does.       *)
(***************************************************************************)
EXTENDS Integers, Sequences, FiniteSets, TLC

VARIABLES
    \* ChangeDetector fields
    state, stableFrameCount, triggeredCount, stabilityFrames,
    intervalId, lastFrame, detCrop,
    \* scripted feeding of processStateChange: the fractions fed, the
    \* positions at which the trigger fired
    fed, fires,
    \* mergeOverlappingBoxes: input, the groups built, output
    regions, groups, merged, mergePc,
    \* detectTextRegions / recognize: raw engine output, image size, outcome
    results, origWidth, origHeight, detectOut, ocrOutcome,
    \* filterOCRLine: the rolling buffer, the last two calls
    recentLines, filterIn, filterOut, prevIn, prevOut, nCalls,
    \* index.js glue, Timer, WindowCapture, TextHookDisplay
    timerRunning, captureStream, captureVideo, capCrop, lastWindowDimensions,
    videoDims, listening, initialized, ocrInitialized, isProcessing, passes,
    handlers, lines, triggers, dropped,
    \* the error performOCR's catch block logged last
    lastError,
    \* decodeMeikiOCROutput: arguments, result
    decIn, decoded, decPc,
    \* recognize, stage 2: the regions, the engine output seen for each
    \* region processed, the lines collected, the outcome
    recRegions, recResults, recIdx, recLines, recOutcome, recText,
    \* compareFrames: two frames, the fractions computed from them
    frameA, frameB, diffAB, diffBA, diffAA, diffPc,
    \* the browser's interval timers: the ids of the active ones, the id
    \* held in ChangeDetector.intervalId (0 for null), the id setInterval
    \* returns next, the last of start/stop called, whether a trigger
    \* fired after a stop() with no start() since
    intervals, intervalHandle, nextHandle, lastCall, firedStopped

detVars == <<state, stableFrameCount, triggeredCount, stabilityFrames,
             intervalId, lastFrame, detCrop>>
smVars == <<fed, fires>>
mergeVars == <<regions, groups, merged, mergePc>>
detectVars == <<results, origWidth, origHeight, detectOut, ocrOutcome>>
filterVars == <<recentLines, filterIn, filterOut, prevIn, prevOut, nCalls>>
sysVars == <<timerRunning, captureStream, captureVideo, capCrop,
             lastWindowDimensions, videoDims, listening, initialized,
             ocrInitialized, isProcessing, passes, handlers, lines, triggers,
             dropped, lastError>>
decodeVars == <<decIn, decoded, decPc>>
loopVars == <<recRegions, recResults, recIdx, recLines, recOutcome, recText>>
recogVars == <<decodeVars, loopVars>>
diffVars == <<frameA, frameB, diffAB, diffBA, diffAA, diffPc>>
intervalVars == <<intervals, intervalHandle, nextHandle, lastCall, firedStopped>>
vars == <<detVars, smVars, mergeVars, detectVars, filterVars, sysVars, recogVars,
          diffVars, intervalVars>>

(***************************************************************************)
(* Bounds of the model.                                                    *)
(***************************************************************************)
MaxSamples == 6
MaxStabilityOpt == 3
MaxBoxes == 3
MaxRaw == 3
MaxTextLen == 2
MaxCalls == 2
MaxTriggers == 2
MaxClicks == 2
MaxCands == 3
MaxRegions == 2
MaxCount == 3
MaxTableSteps == 2
LongTextLen == 3
MaxBufferCalls == 12
MaxFrameWidth == 3
MaxFrameHeight == 2

(***************************************************************************)
(* ChangeDetector: configuration (constructor defaults) and the state      *)
(* machine.                                                                *)
(***************************************************************************)
changeThreshold == 15
lowChangeThreshold == 10
defaultStabilityFrames == 3

\* options.stabilityFrames || 3 : an absent or zero option takes the default
StabilityFramesOf(opt) == IF opt = 0 THEN defaultStabilityFrames ELSE opt

Frac(n, d) == [num |-> n, den |-> d]
\* changePercent > threshold ; changePercent < threshold
GT(cp, thr) == cp.num * 1000 > thr * cp.den
LT(cp, thr) == cp.num * 1000 < thr * cp.den

SMOut(st, cnt, trig, f) ==
    [state |-> st, stableFrameCount |-> cnt, triggeredCount |-> trig, fired |-> f]

\* mutant: the first settled frame is not counted
processStateChange_NoFirstCount(st, cnt, trig, sf, cp) ==
    IF st = "idle" THEN
        IF GT(cp, changeThreshold) THEN SMOut("change_detected", 0, trig, FALSE)
        ELSE SMOut(st, cnt, trig, FALSE)
    ELSE IF st = "change_detected" THEN
        IF LT(cp, lowChangeThreshold) THEN SMOut("waiting_for_stability", 0, trig, FALSE)
        ELSE SMOut(st, cnt, trig, FALSE)
    ELSE
        IF LT(cp, lowChangeThreshold) THEN
            IF cnt + 1 >= sf THEN SMOut("idle", 0, trig + 1, TRUE)
            ELSE SMOut(st, cnt + 1, trig, FALSE)
        ELSE IF GT(cp, changeThreshold) THEN SMOut("change_detected", 0, trig, FALSE)
        ELSE SMOut(st, 0, trig, FALSE)

\* mutant: a high change while waiting is ignored
processStateChange_IgnoreSpike(st, cnt, trig, sf, cp) ==
    IF st = "idle" THEN
        IF GT(cp, changeThreshold) THEN SMOut("change_detected", 0, trig, FALSE)
        ELSE SMOut(st, cnt, trig, FALSE)
    ELSE IF st = "change_detected" THEN
        IF LT(cp, lowChangeThreshold) THEN SMOut("waiting_for_stability", 1, trig, FALSE)
        ELSE SMOut(st, cnt, trig, FALSE)
    ELSE
        IF LT(cp, lowChangeThreshold) THEN
            IF cnt + 1 >= sf THEN SMOut("idle", 0, trig + 1, TRUE)
            ELSE SMOut(st, cnt + 1, trig, FALSE)
        ELSE IF GT(cp, changeThreshold) THEN SMOut(st, cnt, trig, FALSE)
        ELSE SMOut(st, 0, trig, FALSE)

\* mutant: a medium change while waiting keeps the counter
processStateChange_KeepOnMedium(st, cnt, trig, sf, cp) ==
    IF st = "idle" THEN
        IF GT(cp, changeThreshold) THEN SMOut("change_detected", 0, trig, FALSE)
        ELSE SMOut(st, cnt, trig, FALSE)
    ELSE IF st = "change_detected" THEN
        IF LT(cp, lowChangeThreshold) THEN SMOut("waiting_for_stability", 1, trig, FALSE)
        ELSE SMOut(st, cnt, trig, FALSE)
    ELSE
        IF LT(cp, lowChangeThreshold) THEN
            IF cnt + 1 >= sf THEN SMOut("idle", 0, trig + 1, TRUE)
            ELSE SMOut(st, cnt + 1, trig, FALSE)
        ELSE IF GT(cp, changeThreshold) THEN SMOut("change_detected", 0, trig, FALSE)
        ELSE SMOut(st, cnt, trig, FALSE)

\* mutant: firing leaves the counter where it stood
processStateChange_KeepOnFire(st, cnt, trig, sf, cp) ==
    IF st = "idle" THEN
        IF GT(cp, changeThreshold) THEN SMOut("change_detected", 0, trig, FALSE)
        ELSE SMOut(st, cnt, trig, FALSE)
    ELSE IF st = "change_detected" THEN
        IF LT(cp, lowChangeThreshold) THEN SMOut("waiting_for_stability", 1, trig, FALSE)
        ELSE SMOut(st, cnt, trig, FALSE)
    ELSE
        IF LT(cp, lowChangeThreshold) THEN
            IF cnt + 1 >= sf THEN SMOut("idle", cnt + 1, trig + 1, TRUE)
            ELSE SMOut(st, cnt + 1, trig, FALSE)
        ELSE IF GT(cp, changeThreshold) THEN SMOut("change_detected", 0, trig, FALSE)
        ELSE SMOut(st, 0, trig, FALSE)

\* mutant: a change of exactly changeThreshold counts as a high change
processStateChange_BoundaryIsHigh(st, cnt, trig, sf, cp) ==
    IF st = "idle" THEN
        IF ~LT(cp, changeThreshold) THEN SMOut("change_detected", 0, trig, FALSE)
        ELSE SMOut(st, cnt, trig, FALSE)
    ELSE IF st = "change_detected" THEN
        IF LT(cp, lowChangeThreshold) THEN SMOut("waiting_for_stability", 1, trig, FALSE)
        ELSE SMOut(st, cnt, trig, FALSE)
    ELSE
        IF LT(cp, lowChangeThreshold) THEN
            IF cnt + 1 >= sf THEN SMOut("idle", 0, trig + 1, TRUE)
            ELSE SMOut(st, cnt + 1, trig, FALSE)
        ELSE IF ~LT(cp, changeThreshold) THEN SMOut("change_detected", 0, trig, FALSE)
        ELSE SMOut(st, 0, trig, FALSE)

\* ChangeDetector.processStateChange(changePercent): the new state, counter
\* and statistics, and whether onTrigger was called
processStateChange(st, cnt, trig, sf, cp) ==
    IF st = "idle" THEN
        IF GT(cp, changeThreshold) THEN SMOut("change_detected", 0, trig, FALSE)
        ELSE SMOut(st, cnt, trig, FALSE)
    ELSE IF st = "change_detected" THEN
        IF LT(cp, lowChangeThreshold) THEN SMOut("waiting_for_stability", 1, trig, FALSE)
        ELSE SMOut(st, cnt, trig, FALSE)
    ELSE
        IF LT(cp, lowChangeThreshold) THEN
            IF cnt + 1 >= sf THEN SMOut("idle", 0, trig + 1, TRUE)
            ELSE SMOut(st, cnt + 1, trig, FALSE)
        ELSE IF GT(cp, changeThreshold) THEN SMOut("change_detected", 0, trig, FALSE)
        ELSE SMOut(st, 0, trig, FALSE)

(***************************************************************************)
(* MeikiOCR detection reducer.  A box is <<x1, y1, x2, y2>>; a region is   *)
(* [box, score]; scores are kept in tenths.                                *)
(***************************************************************************)
DETECT_SIZE == 640
DETECT_CONFIDENCE == 3

SetMin(S) == CHOOSE x \in S : \A y \in S : x <= y
SetMax(S) == CHOOSE x \in S : \A y \in S : x >= y
Region(b, s) == [box |-> b, score |-> s]

\* mutant: boxes that only touch count as overlapping
boxesOverlap_Touching(box1, box2) ==
    ~( (box1[3] < box2[1]) \/ (box2[3] < box1[1])
       \/ (box1[4] < box2[2]) \/ (box2[4] < box1[2]) )

\* boxesOverlap(box1, box2)
boxesOverlap(box1, box2) ==
    LET noOverlap == (box1[3] <= box2[1]) \/ (box2[3] <= box1[1])
                     \/ (box1[4] <= box2[2]) \/ (box2[4] <= box1[2])
    IN ~noOverlap

\* one run of the inner for-loop over j: the group and the used set as they
\* grow, and whether anything was added
RECURSIVE ScanRegions(_, _, _, _, _)
ScanRegions(R, group, used, j, changed) ==
    IF j > Len(R) THEN [group |-> group, used |-> used, changed |-> changed]
    ELSE IF j \in used THEN ScanRegions(R, group, used, j + 1, changed)
    ELSE IF \E k \in 1..Len(group) : boxesOverlap(R[j].box, R[group[k]].box)
         THEN ScanRegions(R, Append(group, j), used \cup {j}, j + 1, TRUE)
         ELSE ScanRegions(R, group, used, j + 1, changed)

\* mutant: a single pass over the regions, no repetition until a fixpoint
GrowGroup_SinglePass(R, group, used) == ScanRegions(R, group, used, 1, FALSE)

\* while (changed) { ... } : repeat the scan until nothing is added
RECURSIVE GrowGroup(_, _, _)
GrowGroup(R, group, used) ==
    LET r == ScanRegions(R, group, used, 1, FALSE)
    IN IF r.changed THEN GrowGroup(R, r.group, r.used) ELSE r

\* the outer for-loop over i: the list of groups (each a list of indices)
RECURSIVE BuildGroups(_, _, _, _)
BuildGroups(R, i, used, gs) ==
    IF i > Len(R) THEN gs
    ELSE IF i \in used THEN BuildGroups(R, i + 1, used, gs)
    ELSE LET r == GrowGroup(R, <<i>>, used \cup {i})
         IN BuildGroups(R, i + 1, r.used, Append(gs, r.group))

mergeGroups(R) == BuildGroups(R, 1, {}, <<>>)

\* mutant: the merged region takes the score of the group's first member
MergeGroup_FirstScore(R, group) ==
    LET idx == {group[k] : k \in 1..Len(group)}
    IN Region(<<SetMin({R[i].box[1] : i \in idx}), SetMin({R[i].box[2] : i \in idx}),
                SetMax({R[i].box[3] : i \in idx}), SetMax({R[i].box[4] : i \in idx})>>,
              R[group[1]].score)

\* the union box and the maximal score of one group
MergeGroup(R, group) ==
    LET idx == {group[k] : k \in 1..Len(group)}
    IN Region(<<SetMin({R[i].box[1] : i \in idx}), SetMin({R[i].box[2] : i \in idx}),
                SetMax({R[i].box[3] : i \in idx}), SetMax({R[i].box[4] : i \in idx})>>,
              SetMax({R[i].score : i \in idx}))

\* mergeOverlappingBoxes(regions)
mergeOverlappingBoxes(R) ==
    LET gs == mergeGroups(R) IN [k \in 1..Len(gs) |-> MergeGroup(R, gs[k])]

\* mutant: the comparator reversed, the regions sorted bottom to top
RECURSIVE InsertByTop_Descending(_, _)
InsertByTop_Descending(sorted, r) ==
    IF sorted = <<>> THEN <<r>>
    ELSE IF r.box[2] > sorted[Len(sorted)].box[2]
         THEN Append(InsertByTop_Descending(SubSeq(sorted, 1, Len(sorted) - 1), r),
                     sorted[Len(sorted)])
         ELSE Append(sorted, r)

\* Array.prototype.sort((a, b) => a.box[1] - b.box[1]) : a stable sort by y1
RECURSIVE InsertByTop(_, _)
InsertByTop(sorted, r) ==
    IF sorted = <<>> THEN <<r>>
    ELSE IF r.box[2] < sorted[Len(sorted)].box[2]
         THEN Append(InsertByTop(SubSeq(sorted, 1, Len(sorted) - 1), r), sorted[Len(sorted)])
         ELSE Append(sorted, r)

RECURSIVE SortByTop(_)
SortByTop(rs) ==
    IF rs = <<>> THEN <<>>
    ELSE InsertByTop(SortByTop(SubSeq(rs, 1, Len(rs) - 1)), rs[Len(rs)])

\* The raw engine output: the outputs in key order, each [name, data].
HasOutput(res, name) == \E i \in 1..Len(res) : res[i].name = name
OutputData(res, name) == res[CHOOSE i \in 1..Len(res) : res[i].name = name].data

\* mutant: only negative coordinates are clamped
Clamp_LowerOnly(v, hi) == IF v < 0 THEN 0 ELSE v

\* Math.max(0, Math.min(v, hi))
Clamp(v, hi) == IF v < 0 THEN 0 ELSE IF v > hi THEN hi ELSE v
\* Math.floor(v / scale), scale = min(DETECT_SIZE / w, DETECT_SIZE / h)
Unscale(v, w, h) == (v * (IF w >= h THEN w ELSE h)) \div DETECT_SIZE

\* the loop of lines 300-318: filter by confidence, rescale, clamp
RECURSIVE FilterAndScale(_, _, _, _, _)
FilterAndScale(boxes, scores, i, w, h) ==
    IF i > Len(scores) THEN <<>>
    ELSE IF scores[i] < DETECT_CONFIDENCE THEN FilterAndScale(boxes, scores, i + 1, w, h)
    ELSE <<Region(<<Clamp(Unscale(boxes[4 * i - 3], w, h), w),
                    Clamp(Unscale(boxes[4 * i - 2], w, h), h),
                    Clamp(Unscale(boxes[4 * i - 1], w, h), w),
                    Clamp(Unscale(boxes[4 * i], w, h), h)>>, scores[i])>>
         \o FilterAndScale(boxes, scores, i + 1, w, h)

\* detectTextRegions after inference: the regions, or threw (a TypeError
\* from reading .data of an output that is not there)
detectTextRegions(res, w, h) ==
    IF HasOutput(res, "boxes") /\ HasOutput(res, "scores") THEN
        [threw |-> FALSE,
         regions |-> SortByTop(mergeOverlappingBoxes(
             FilterAndScale(OutputData(res, "boxes"), OutputData(res, "scores"), 1, w, h)))]
    ELSE IF Len(res) < 2 THEN [threw |-> TRUE, regions |-> <<>>]
    ELSE [threw |-> FALSE,
          regions |-> SortByTop(mergeOverlappingBoxes(
              FilterAndScale(res[1].data, res[2].data, 1, w, h)))]

\* recognize, lines 554-564 and 611-613: what becomes of the detection stage
recognizeDetectStage(det) ==
    IF det.threw THEN "failed"
    ELSE IF Len(det.regions) = 0 THEN "no_text"
    ELSE "recognizing"

(***************************************************************************)
(* Line filter.  A text is a sequence of characters; the characters are    *)
(* named: "a" an ASCII letter, " " the ASCII space, "(" and ")", and the   *)
(* non-ASCII ones LQ (U+300C), RQ (U+300D), LP (U+FF08), RP (U+FF09),      *)
(* HB (U+2015), CH (U+30FC), K (a kanji), IS (U+3000, ideographic space).  *)
(***************************************************************************)
MAX_RECENT_LINES == 10

AsciiChars == {"a", " ", "(", ")"}
WhiteSpace == {" ", "IS"}
Alphabet == AsciiChars \cup {"LQ", "RQ", "LP", "RP", "HB", "CH", "K", "IS"}

RECURSIVE DropLeading(_, _)
DropLeading(t, S) ==
    IF t # <<>> /\ t[1] \in S THEN DropLeading(Tail(t), S) ELSE t
RECURSIVE DropTrailing(_, _)
DropTrailing(t, S) ==
    IF t # <<>> /\ t[Len(t)] \in S THEN DropTrailing(SubSeq(t, 1, Len(t) - 1), S) ELSE t

\* text.replace(/^[\x00-\x7F]+|[\x00-\x7F]+$/g, '')
StripAscii(t) == DropTrailing(DropLeading(t, AsciiChars), AsciiChars)
\* String.prototype.trim
Trim(t) == DropTrailing(DropLeading(t, WhiteSpace), WhiteSpace)

\* String.prototype.replaceAll: left to right, matches do not overlap
RECURSIVE ReplaceAll(_, _, _)
ReplaceAll(t, pat, rep) ==
    IF Len(t) < Len(pat) THEN t
    ELSE IF SubSeq(t, 1, Len(pat)) = pat
         THEN rep \o ReplaceAll(SubSeq(t, Len(pat) + 1, Len(t)), pat, rep)
         ELSE <<t[1]>> \o ReplaceAll(Tail(t), pat, rep)

Includes(t, c) == \E i \in 1..Len(t) : t[i] = c

\* the bracket step mutated: a missing opening mark is never supplied
Balance_AppendOnly(t, open, close) ==
    IF Includes(t, open) /\ ~Includes(t, close) THEN Append(t, close) ELSE t

\* lines 15-29: close an open mark, open a closed one
Balance(t, open, close) ==
    IF Includes(t, open) /\ ~Includes(t, close) THEN Append(t, close)
    ELSE IF ~Includes(t, open) /\ Includes(t, close) THEN <<open>> \o t
    ELSE t

\* lines 7-35: the text after every rewriting step and the final trim
Normalize(text) ==
    LET s1 == StripAscii(text)
        s2 == ReplaceAll(s1, <<"RQ", "RQ">>, <<"RQ">>)
        s3 == ReplaceAll(s2, <<"LQ", "LQ">>, <<"LQ">>)
        s4 == ReplaceAll(s3, <<"(">>, <<"LP">>)
        s5 == ReplaceAll(s4, <<")">>, <<"RP">>)
        s6 == Balance(s5, "LQ", "RQ")
        s7 == Balance(s6, "LP", "RP")
        s8 == ReplaceAll(s7, <<"HB">>, <<"CH">>)
    IN Trim(s8)

\* Array.prototype.at(index), index counted from 0: the element, or undefined
At(arr, index) ==
    IF 0 <= index /\ index < Len(arr) THEN [defined |-> TRUE, value |-> arr[index + 1]]
    ELSE IF index < 0 /\ -index <= Len(arr)
         THEN [defined |-> TRUE, value |-> arr[Len(arr) + index + 1]]
         ELSE [defined |-> FALSE, value |-> <<>>]

\* x == filtered, x an array element or undefined, filtered a string
LooseEq(x, filtered) == x.defined /\ x.value = filtered

NullLine == [isNull |-> TRUE, line |-> <<>>]
Line(t) == [isNull |-> FALSE, line |-> t]

\* line 41: the element the repeat check reads
LastEmitted(recent) == At(recent, Len(recent))

\* filterOCRLine mutated: no check for an empty line
filterOCRLine_EmptyKept(text, recent) ==
    LET filtered == Normalize(text)
        pushed == Append(recent, filtered)
    IN IF LooseEq(LastEmitted(recent), filtered)
       THEN [result |-> NullLine, recentLines |-> recent]
       ELSE [result |-> Line(filtered),
             recentLines |-> IF Len(pushed) > MAX_RECENT_LINES THEN Tail(pushed)
                             ELSE pushed]

\* filterOCRLine mutated: a full buffer loses the line just pushed, not its
\* oldest entry
filterOCRLine_DropsNewest(text, recent) ==
    LET filtered == Normalize(text)
    IN IF filtered = <<>> THEN [result |-> NullLine, recentLines |-> recent]
       ELSE IF LooseEq(LastEmitted(recent), filtered)
            THEN [result |-> NullLine, recentLines |-> recent]
            ELSE [result |-> Line(filtered),
                  recentLines |-> IF Len(recent) >= MAX_RECENT_LINES THEN recent
                                  ELSE Append(recent, filtered)]

\* filterOCRLine(text) with recentLines = recent: the value returned and
\* the buffer afterwards
filterOCRLine(text, recent) ==
    LET filtered == Normalize(text)
        pushed == Append(recent, filtered)
    IN IF filtered = <<>> THEN [result |-> NullLine, recentLines |-> recent]
       ELSE IF LooseEq(LastEmitted(recent), filtered)
            THEN [result |-> NullLine, recentLines |-> recent]
            ELSE [result |-> Line(filtered),
                  recentLines |-> IF Len(pushed) > MAX_RECENT_LINES THEN Tail(pushed)
                                  ELSE pushed]

(***************************************************************************)
(* Frames.  A crop is [left, right, top, bottom]; a video size is [width,  *)
(* height].  A frame is an ImageData of width x height pixels whose first  *)
(* lit pixels (row by row) are white and whose other pixels are black.     *)
(***************************************************************************)
scaleDownFactor == 4
pixelDiffThreshold == 20

Crop(l, r, t, b) == [present |-> TRUE, left |-> l, right |-> r, top |-> t, bottom |-> b]
NoCrop == [present |-> FALSE, left |-> 0, right |-> 0, top |-> 0, bottom |-> 0]
DefaultCrop == Crop(8, 8, 32, 8)
Crops == {DefaultCrop, Crop(0, 0, 0, 0)}
Dims(w, h) == [width |-> w, height |-> h]
NoDims == Dims(0, 0)
VideoSizes == {Dims(48, 64), Dims(64, 64)}
FrameLits == {0, 2}

NoFrame == [present |-> FALSE, width |-> 0, height |-> 0, lit |-> 0]

\* captureScaledFrame: the size of the scaled canvas, the content drawn
captureScaledFrame(video, crop, lit) ==
    [present |-> TRUE,
     width |-> (video.width - crop.left - crop.right) \div scaleDownFactor,
     height |-> (video.height - crop.top - crop.bottom) \div scaleDownFactor,
     lit |-> lit]

\* the RGBA value of pixel p (from 0) of a frame
\* (a frame that carries its data array has the values of that array)
Pixel(f, p) ==
    IF "pixels" \in DOMAIN f THEN f.pixels[p + 1]
    ELSE IF p < f.lit THEN <<255, 255, 255, 255>> ELSE <<0, 0, 0, 255>>
Abs(x) == IF x < 0 THEN -x ELSE x

\* compareFrames(frame1, frame2): the loop runs over the pixels of frame1;
\* where frame2 has no pixel the differences are NaN and nothing is counted
compareFrames(frame1, frame2) ==
    LET n1 == frame1.width * frame1.height
        n2 == frame2.width * frame2.height
        totalDiff(p) == LET a == Pixel(frame1, p)
                            b == Pixel(frame2, p)
                        IN Abs(a[1] - b[1]) + Abs(a[2] - b[2]) + Abs(a[3] - b[3])
        diffCount == Cardinality({p \in 0..(n1 - 1) :
                                     p < n2 /\ totalDiff(p) > pixelDiffThreshold})
    IN Frac(diffCount, n1)

CFOut(st, cnt, trig, last, f) ==
    [state |-> st, stableFrameCount |-> cnt, triggeredCount |-> trig,
     lastFrame |-> last, fired |-> f]

\* checkFrame mutated: the reading timer is not consulted
checkFrame_IgnoresPause(st, cnt, trig, sf, last, cur, timerOn) ==
    IF cur.width <= 0 \/ cur.height <= 0 THEN CFOut(st, cnt, trig, last, FALSE)
    ELSE IF ~last.present THEN CFOut(st, cnt, trig, cur, FALSE)
    ELSE LET r == processStateChange(st, cnt, trig, sf, compareFrames(last, cur))
         IN CFOut(r.state, r.stableFrameCount, r.triggeredCount, cur, r.fired)

\* checkFrame mutated: with no stored frame the captured frame is compared
\* with an all-black frame of its size
checkFrame_FirstFrameDiffed(st, cnt, trig, sf, last, cur, timerOn) ==
    IF ~timerOn THEN CFOut(st, cnt, trig, last, FALSE)
    ELSE IF cur.width <= 0 \/ cur.height <= 0 THEN CFOut(st, cnt, trig, last, FALSE)
    ELSE LET prev == IF last.present THEN last ELSE [cur EXCEPT !.lit = 0]
             r == processStateChange(st, cnt, trig, sf, compareFrames(prev, cur))
         IN CFOut(r.state, r.stableFrameCount, r.triggeredCount, cur, r.fired)

\* checkFrame() once the detector is started, with the frame it captures:
\* the detector's fields afterwards and whether onTrigger was called
checkFrame(st, cnt, trig, sf, last, cur, timerOn) ==
    IF ~timerOn THEN CFOut(st, cnt, trig, last, FALSE)
    ELSE IF cur.width <= 0 \/ cur.height <= 0 THEN CFOut(st, cnt, trig, last, FALSE)
    ELSE IF ~last.present THEN CFOut(st, cnt, trig, cur, FALSE)
    ELSE LET r == processStateChange(st, cnt, trig, sf, compareFrames(last, cur))
         IN CFOut(r.state, r.stableFrameCount, r.triggeredCount, cur, r.fired)

(***************************************************************************)
(* Initial values: every object as its constructor leaves it.              *)
(***************************************************************************)
\* new ChangeDetector(options)
DetectorInit ==
    /\ state = "idle"
    /\ stableFrameCount = 0
    /\ triggeredCount = 0
    /\ stabilityFrames \in {StabilityFramesOf(o) : o \in 0..MaxStabilityOpt}
    /\ intervalId = FALSE
    /\ lastFrame = NoFrame
    /\ detCrop = NoCrop

DetectorDefault ==
    /\ state = "idle"
    /\ stableFrameCount = 0
    /\ triggeredCount = 0
    /\ stabilityFrames = StabilityFramesOf(0)
    /\ intervalId = FALSE
    /\ lastFrame = NoFrame
    /\ detCrop = NoCrop

ScriptOff == fed = <<>> /\ fires = <<>>
MergeOff == regions = <<>> /\ groups = <<>> /\ merged = <<>> /\ mergePc = "off"
DetectOff ==
    /\ results = <<>>
    /\ origWidth = 0
    /\ origHeight = 0
    /\ detectOut = [threw |-> FALSE, regions |-> <<>>]
    /\ ocrOutcome = "off"
FilterInit ==
    /\ recentLines = <<>>
    /\ filterIn = <<>>
    /\ filterOut = NullLine
    /\ prevIn = <<>>
    /\ prevOut = NullLine
    /\ nCalls = 0
RecogOff ==
    /\ decIn = [labels |-> <<>>, boxes |-> <<>>, scores |-> <<>>,
                effectiveWidth |-> 0, origWidth |-> 0, origHeight |-> 0]
    /\ decoded = [text |-> <<>>, chars |-> <<>>]
    /\ decPc = "off"
    /\ recRegions = <<>>
    /\ recResults = <<>>
    /\ recIdx = 0
    /\ recLines = <<>>
    /\ recOutcome = "off"
    /\ recText = <<>>
DiffOff ==
    /\ frameA = NoFrame
    /\ frameB = NoFrame
    /\ diffAB = Frac(0, 1)
    /\ diffBA = Frac(0, 1)
    /\ diffAA = Frac(0, 1)
    /\ diffPc = "off"
IntervalOff ==
    /\ intervals = {}
    /\ intervalHandle = 0
    /\ nextHandle = 1
    /\ lastCall = "none"
    /\ firedStopped = FALSE
SysOff ==
    /\ timerRunning = FALSE
    /\ captureStream = FALSE
    /\ captureVideo = FALSE
    /\ capCrop = DefaultCrop
    /\ lastWindowDimensions = NoDims
    /\ videoDims = NoDims
    /\ listening = FALSE
    /\ initialized = FALSE
    /\ ocrInitialized = FALSE
    /\ isProcessing = FALSE
    /\ passes = <<>>
    /\ handlers = <<>>
    /\ lines = <<>>
    /\ triggers = 0
    /\ dropped = 0
    /\ lastError = "none"

(***************************************************************************)
(* SpecSM: the state machine fed a script of fractions, one call of        *)
(* processStateChange per step.                                            *)
(***************************************************************************)
ScriptFractions == {Frac(k, 1000) : k \in {5, 10, 15, 20}}

InitSM == DetectorInit /\ ScriptOff /\ MergeOff /\ DetectOff /\ FilterInit /\ SysOff /\ DiffOff /\ IntervalOff /\ RecogOff

Feed ==
    \E cp \in ScriptFractions :
        /\ Len(fed) < MaxSamples
        /\ LET r == processStateChange(state, stableFrameCount, triggeredCount,
                                       stabilityFrames, cp)
           IN /\ state' = r.state
              /\ stableFrameCount' = r.stableFrameCount
              /\ triggeredCount' = r.triggeredCount
              /\ fires' = IF r.fired THEN Append(fires, Len(fed) + 1) ELSE fires
        /\ fed' = Append(fed, cp)
        /\ UNCHANGED <<stabilityFrames, intervalId, lastFrame, detCrop>>
        /\ UNCHANGED <<mergeVars, detectVars, filterVars, sysVars, recogVars, diffVars, intervalVars>>

NextSM == Feed
SpecSM == InitSM /\ [][NextSM]_vars

IsPrefix(s, t) == Len(s) <= Len(t) /\ s = SubSeq(t, 1, Len(s))
Script(ks) == [i \in 1..Len(ks) |-> Frac(ks[i], 1000)]
IsLow(cp) == LT(cp, lowChangeThreshold)
IsHigh(cp) == GT(cp, changeThreshold)

\* C34: in every reachable state of the detector, for every configured
\* stabilityFrames of at least 1, the stable counter is at least 0 and
\* below stabilityFrames, and it is 0 in the states idle and
\* change_detected.
C34_StableCounterBelowStabilityFrames ==
    stabilityFrames >= 1 =>
        /\ 0 <= stableFrameCount
        /\ stableFrameCount < stabilityFrames
        /\ (state \in {"idle", "change_detected"} => stableFrameCount = 0)

SettleScript == Script(<<20, 5, 5, 5>>)
SpikeScript == Script(<<20, 5, 20, 5, 5, 5>>)

\* C4: with stabilityFrames 3, feeding 0.02, 0.005, 0.005, 0.005 from Idle
\* fires the trigger exactly once, on the 4th sample and on none before it,
\* and leaves the machine in Idle with counter 0.
C4_SettleScriptFiresOnFourth ==
    (stabilityFrames = 3 /\ IsPrefix(fed, SettleScript)) =>
        /\ Len(fed) < 4 => fires = <<>>
        /\ Len(fed) = 4 => fires = <<4>> /\ state = "idle" /\ triggeredCount = 1

C4_Witness ==
    stabilityFrames = 3 /\ fed = SettleScript /\ fires = <<4>> /\ state = "idle"

C6_FireNeedsBurstThenSettle ==
    \A n \in 1..Len(fires) :
        LET k == fires[n]
            prev == IF n = 1 THEN 0 ELSE fires[n - 1]
        IN /\ k - stabilityFrames >= prev
           /\ \A p \in (k - stabilityFrames + 1)..k : IsLow(fed[p])
           /\ \E p \in (prev + 1)..(k - stabilityFrames) : IsHigh(fed[p])

\* a fire whose settle was once interrupted by a medium sample
C6_Witness ==
    /\ fires # <<>>
    /\ \E p \in 1..fires[1] : ~IsLow(fed[p]) /\ ~IsHigh(fed[p])
    /\ \E p \in 1..(fires[1] - stabilityFrames - 1) : IsLow(fed[p])

\* the sample a step feeds lies between the two thresholds
MediumFed == ~IsLow(fed'[Len(fed')]) /\ ~IsHigh(fed'[Len(fed')])

\* C19 as first stated: the stable counter is 0 after every step that
\* changes the state and after every medium sample taken while waiting.
C19_CounterZeroAfterEveryStateChange ==
    [][fed' # fed =>
          ((state' # state \/ (state = "waiting_for_stability" /\ MediumFed))
               => stableFrameCount' = 0)]_vars

\* C19: the stable counter is 0 after the steps idle to change_detected,
\* waiting_for_stability to change_detected and waiting_for_stability to
\* idle and after every medium sample taken while waiting; after the step
\* change_detected to waiting_for_stability it is 1, the low sample that
\* caused the step being counted.
C19_CounterAfterStateChange ==
    [][fed' # fed =>
          /\ (state' # state /\ state' # "waiting_for_stability") => stableFrameCount' = 0
          /\ (state = "waiting_for_stability" /\ MediumFed) => stableFrameCount' = 0
          /\ (state' # state /\ state' = "waiting_for_stability") =>
                 (state = "change_detected" /\ stableFrameCount' = 1)]_vars

\* a burst, two low samples, a medium one, two low ones, and a fire: every
\* kind of step has been taken but the spike while waiting
C19_Witness ==
    /\ stabilityFrames = 2
    /\ fed = Script(<<20, 5, 10, 5, 5>>)
    /\ fires = <<5>>
    /\ state = "idle"
    /\ stableFrameCount = 0

(***************************************************************************)
(* SpecTable: processStateChange applied to a detector in any state, with  *)
(* any counter up to MaxCount, for one or two samples.                     *)
(***************************************************************************)
DetectorStates == {"idle", "change_detected", "waiting_for_stability"}

InitTable ==
    /\ state \in DetectorStates
    /\ stableFrameCount \in 0..MaxCount
    /\ triggeredCount = 0
    /\ stabilityFrames \in {StabilityFramesOf(o) : o \in 0..MaxStabilityOpt}
    /\ intervalId = FALSE
    /\ lastFrame = NoFrame
    /\ detCrop = NoCrop
    /\ ScriptOff /\ MergeOff /\ DetectOff /\ FilterInit /\ SysOff /\ DiffOff /\ IntervalOff /\ RecogOff

TableStep ==
    \E cp \in ScriptFractions :
        /\ Len(fed) < MaxTableSteps
        /\ LET r == processStateChange(state, stableFrameCount, triggeredCount,
                                       stabilityFrames, cp)
           IN /\ state' = r.state
              /\ stableFrameCount' = r.stableFrameCount
              /\ triggeredCount' = r.triggeredCount
              /\ fires' = IF r.fired THEN Append(fires, Len(fed) + 1) ELSE fires
        /\ fed' = Append(fed, cp)
        /\ UNCHANGED <<stabilityFrames, intervalId, lastFrame, detCrop>>
        /\ UNCHANGED <<mergeVars, detectVars, filterVars, sysVars, recogVars, diffVars, intervalVars>>

NextTable == TableStep
SpecTable == InitTable /\ [][NextTable]_vars

\* the transition table of the change state machine: next state, counter
\* and whether the trigger fires
TableRow(st, cnt, f) == [state |-> st, count |-> cnt, fire |-> f]
TransitionTable(st, cnt, sf, cp) ==
    LET below == cp.num * 1000 < lowChangeThreshold * cp.den
        above == cp.num * 1000 > changeThreshold * cp.den
    IN CASE st = "idle" /\ above -> TableRow("change_detected", 0, FALSE)
         [] st = "change_detected" /\ below -> TableRow("waiting_for_stability", 1, FALSE)
         [] st = "waiting_for_stability" /\ below /\ cnt + 1 >= sf -> TableRow("idle", 0, TRUE)
         [] st = "waiting_for_stability" /\ below /\ cnt + 1 < sf ->
                TableRow("waiting_for_stability", cnt + 1, FALSE)
         [] st = "waiting_for_stability" /\ above -> TableRow("change_detected", 0, FALSE)
         [] st = "waiting_for_stability" /\ ~below /\ ~above ->
                TableRow("waiting_for_stability", 0, FALSE)
         [] OTHER -> TableRow(st, cnt, FALSE)

\* C23: from every state, with every counter and for a sample of every
\* class (below lowChangeThreshold, from lowChangeThreshold to
\* changeThreshold, above changeThreshold) processStateChange leaves the
\* state and counter of the transition table and calls the trigger exactly
\* when the table fires; where the table has no row nothing changes.
C23_ProcessStateChangeIsTheTable ==
    [][fed' # fed =>
          LET row == TransitionTable(state, stableFrameCount, stabilityFrames,
                                     fed'[Len(fed')])
          IN /\ state' = row.state
             /\ stableFrameCount' = row.count
             /\ (fires' # fires) = row.fire
             /\ triggeredCount' = triggeredCount + (IF row.fire THEN 1 ELSE 0)]_vars

\* a low sample took the detector from change_detected to waiting with
\* counter 1, a sample of exactly changeThreshold then reset the counter
C23_Witness ==
    /\ fed = <<Frac(5, 1000), Frac(15, 1000)>>
    /\ state = "waiting_for_stability"
    /\ stableFrameCount = 0
    /\ fires = <<>>
    /\ stabilityFrames = 3

(***************************************************************************)
(* SpecMerge: mergeOverlappingBoxes applied to every list of at most       *)
(* MaxBoxes regions over a small grid, and to the three boxes of the       *)
(* overlap-transitivity example in every order.                            *)
(***************************************************************************)
GridCoords == 0..2
GridBoxes == {<<x1, y1, x2, y2>> : x1 \in GridCoords, y1 \in GridCoords,
                                   x2 \in GridCoords, y2 \in GridCoords}
ProperGridBoxes == {b \in GridBoxes : b[1] < b[3] /\ b[2] < b[4]}
MergeScores == {5, 9}

BoxA == <<0, 0, 10, 10>>
BoxB == <<8, 0, 20, 10>>
BoxC == <<18, 0, 30, 10>>
ExampleLists ==
    {l \in [1..3 -> {Region(b, s) : b \in {BoxA, BoxB, BoxC}, s \in MergeScores}] :
        {l[i].box : i \in 1..3} = {BoxA, BoxB, BoxC}}

InitMerge ==
    /\ \/ \E n \in 0..MaxBoxes :
              regions \in [1..n -> {Region(b, s) : b \in ProperGridBoxes, s \in MergeScores}]
       \/ regions \in ExampleLists
    /\ groups = <<>>
    /\ merged = <<>>
    /\ mergePc = "ready"
    /\ DetectorDefault /\ ScriptOff /\ DetectOff /\ FilterInit /\ SysOff /\ DiffOff /\ IntervalOff /\ RecogOff

Merge ==
    /\ mergePc = "ready"
    /\ groups' = mergeGroups(regions)
    /\ merged' = mergeOverlappingBoxes(regions)
    /\ mergePc' = "done"
    /\ UNCHANGED <<regions, detVars, smVars, detectVars, filterVars, sysVars, recogVars, diffVars, intervalVars>>

NextMerge == Merge
SpecMerge == InitMerge /\ [][NextMerge]_vars

\* Two rectangles intersect: they share a region of positive area.
Intersects(b1, b2) ==
    /\ SetMax({b1[1], b2[1]}) < SetMin({b1[3], b2[3]})
    /\ SetMax({b1[2], b2[2]}) < SetMin({b1[4], b2[4]})

\* the indices reachable from S through chains of intersecting boxes
RECURSIVE ReachFrom(_)
ReachFrom(S) ==
    LET T == S \cup {j \in 1..Len(regions) :
                        \E i \in S : Intersects(regions[i].box, regions[j].box)}
    IN IF T = S THEN S ELSE ReachFrom(T)

GroupOf(i) == CHOOSE g \in 1..Len(groups) : \E k \in 1..Len(groups[g]) : groups[g][k] = i
InSomeGroup(i) == \E g \in 1..Len(groups) : \E k \in 1..Len(groups[g]) : groups[g][k] = i

\* C7: two boxes end up in the same merged region iff a chain of pairwise
\* intersecting boxes connects them, for every list and every order; the
\* boxes A, B, C of the example give one region with box [0,0,30,10].
C7_GroupsAreConnectedComponents ==
    mergePc = "done" =>
        /\ Len(merged) = Len(groups)
        /\ \A i \in 1..Len(regions) : InSomeGroup(i)
        /\ \A i, j \in 1..Len(regions) :
               (GroupOf(i) = GroupOf(j)) <=> (j \in ReachFrom({i}))
        /\ {regions[i].box : i \in 1..Len(regions)} = {BoxA, BoxB, BoxC} =>
               Len(merged) = 1 /\ merged[1].box = <<0, 0, 30, 10>>

\* the example in the order A, C, B: the chain closes only on a second scan
C7_Witness ==
    /\ mergePc = "done"
    /\ Len(regions) = 3
    /\ regions[1].box = BoxA /\ regions[2].box = BoxC /\ regions[3].box = BoxB
    /\ Len(merged) = 1
    /\ merged[1].box = <<0, 0, 30, 10>>

NoTwoIntersect ==
    \A i, j \in 1..Len(regions) : i # j => ~Intersects(regions[i].box, regions[j].box)

\* C8: when no two input boxes intersect (boxes that touch along an edge
\* or at a corner do not), the output has as many regions as the input and
\* each is an input box with its score (the k-th output is the k-th input).
C8_DisjointBoxesStayApart ==
    (mergePc = "done" /\ NoTwoIntersect) =>
        /\ Len(merged) = Len(regions)
        /\ \A k \in 1..Len(regions) : merged[k] = regions[k]

\* three boxes, two touching along an edge and two at a corner
C8_Witness ==
    /\ mergePc = "done"
    /\ Len(regions) = 3
    /\ {regions[i].box : i \in 1..3} = {<<0, 0, 1, 1>>, <<1, 0, 2, 1>>, <<1, 1, 2, 2>>}
    /\ Len(merged) = 3

Members(g) == {groups[g][k] : k \in 1..Len(groups[g])}
Contains(outer, inner) ==
    /\ outer[1] <= inner[1] /\ outer[2] <= inner[2]
    /\ inner[3] <= outer[3] /\ inner[4] <= outer[4]

\* C25: the box of every merged region contains every box of its group
\* and each of its four edges lies on an edge of a member (it is the
\* smallest such rectangle); its score is a member's score and no member
\* has a higher one; every input box is in one group and only one, once.
C25_MergedRegionIsUnionBoxMaxScore ==
    mergePc = "done" =>
        /\ Len(merged) = Len(groups)
        /\ \A g \in 1..Len(groups) :
               /\ Members(g) # {}
               /\ \A i \in Members(g) :
                      /\ Contains(merged[g].box, regions[i].box)
                      /\ regions[i].score <= merged[g].score
               /\ \A c \in 1..4 : \E i \in Members(g) : regions[i].box[c] = merged[g].box[c]
               /\ \E i \in Members(g) : regions[i].score = merged[g].score
        /\ \A i \in 1..Len(regions) :
               Cardinality({<<g, k>> \in (1..Len(groups)) \X (1..MaxBoxes) :
                               k <= Len(groups[g]) /\ groups[g][k] = i}) = 1

\* the three boxes of the example, the highest score on the middle one,
\* merged into one region
C25_Witness ==
    /\ mergePc = "done"
    /\ regions = <<Region(BoxA, 5), Region(BoxB, 9), Region(BoxC, 5)>>
    /\ groups = <<(<<1, 2, 3>>)>>
    /\ merged = <<Region(<<0, 0, 30, 10>>, 9)>>

(***************************************************************************)
(* SpecDetect: detectTextRegions and the detection stage of recognize on   *)
(* every raw output of at most MaxRaw entries.  The image sizes keep the   *)
(* scale a power of two, so that the division by it is exact.              *)
(***************************************************************************)
ImageSizes == {<<1280, 1280>>, <<640, 640>>, <<1280, 640>>}
RawCoords == {-320, 320, 960}
RawBoxes == {b \in {<<x1, y1, x2, y2>> : x1 \in RawCoords, y1 \in RawCoords,
                                         x2 \in RawCoords, y2 \in RawCoords} :
                b[1] < b[3] /\ b[2] < b[4]}
RawScores == {2, 5}

RECURSIVE Flatten(_)
Flatten(bs) == IF bs = <<>> THEN <<>> ELSE bs[1] \o Flatten(Tail(bs))

Output(n, d) == [name |-> n, data |-> d]
OutputNames == {<<"boxes", "scores">>, <<"output0", "output1">>}
AbsentOutputs ==
    {<<>>, <<Output("boxes", <<>>)>>, <<Output("scores", <<5>>)>>,
     <<Output("output0", <<>>)>>}

\* the output names neither boxes nor scores and there are no two outputs
\* to fall back to
OutputAbsent(res) ==
    ~(HasOutput(res, "boxes") /\ HasOutput(res, "scores")) /\ Len(res) < 2

InitDetect ==
    /\ \/ \E n \in 0..MaxRaw :
              \E bs \in [1..n -> RawBoxes], sc \in [1..n -> RawScores], names \in OutputNames :
                  results = <<Output(names[1], Flatten(bs)), Output(names[2], sc)>>
       \/ results \in AbsentOutputs
    /\ \E sz \in ImageSizes : origWidth = sz[1] /\ origHeight = sz[2]
    /\ detectOut = [threw |-> FALSE, regions |-> <<>>]
    /\ ocrOutcome = "pending"
    /\ DetectorDefault /\ ScriptOff /\ MergeOff /\ FilterInit /\ SysOff /\ DiffOff /\ IntervalOff /\ RecogOff

DetectStage ==
    /\ ocrOutcome = "pending"
    /\ detectOut' = detectTextRegions(results, origWidth, origHeight)
    /\ ocrOutcome' = recognizeDetectStage(detectOut')
    /\ UNCHANGED <<results, origWidth, origHeight>>
    /\ UNCHANGED <<detVars, smVars, mergeVars, filterVars, sysVars, recogVars, diffVars, intervalVars>>

NextDetect == DetectStage
SpecDetect == InitDetect /\ [][NextDetect]_vars

\* C9: the regions detectTextRegions returns are pairwise non-overlapping
\* under the predicate used for merging.
C9_OutputRegionsDisjoint ==
    (ocrOutcome # "pending" /\ ~detectOut.threw) =>
        \A i, j \in 1..Len(detectOut.regions) :
            i # j => ~boxesOverlap(detectOut.regions[i].box, detectOut.regions[j].box)

\* C10: when the engine output is absent, detectTextRegions returns an
\* empty list without throwing and the pass ends with "no text".
C10_AbsentOutputGivesNoRegions ==
    (ocrOutcome # "pending" /\ OutputAbsent(results)) =>
        /\ ~detectOut.threw
        /\ detectOut.regions = <<>>
        /\ ocrOutcome = "no_text"

RawBoxData(res) ==
    IF HasOutput(res, "boxes") /\ HasOutput(res, "scores") THEN OutputData(res, "boxes")
    ELSE res[1].data
RawScoreData(res) ==
    IF HasOutput(res, "boxes") /\ HasOutput(res, "scores") THEN OutputData(res, "scores")
    ELSE res[2].data

\* the raw output without its entries of score below 0.3
RECURSIVE ConfidentEntries(_, _)
ConfidentEntries(boxes, scores) ==
    IF scores = <<>> THEN [boxes |-> <<>>, scores |-> <<>>]
    ELSE LET rest == ConfidentEntries(SubSeq(boxes, 5, Len(boxes)), Tail(scores))
         IN IF scores[1] < 3 THEN rest
            ELSE [boxes |-> SubSeq(boxes, 1, 4) \o rest.boxes,
                  scores |-> <<scores[1]>> \o rest.scores]

\* C26: every region detectTextRegions returns has x1 and x2 in
\* 0..original width and y1 and y2 in 0..original height and a score of
\* at least 0.3, and the regions are those returned for the raw output
\* without its entries of score below 0.3: such an entry is in no region.
C26_RegionsClampedAndConfident ==
    (ocrOutcome # "pending" /\ ~OutputAbsent(results)) =>
        LET kept == ConfidentEntries(RawBoxData(results), RawScoreData(results))
        IN /\ ~detectOut.threw
           /\ \A k \in 1..Len(detectOut.regions) :
                  LET r == detectOut.regions[k]
                  IN /\ 0 <= r.box[1] /\ r.box[1] <= origWidth
                     /\ 0 <= r.box[3] /\ r.box[3] <= origWidth
                     /\ 0 <= r.box[2] /\ r.box[2] <= origHeight
                     /\ 0 <= r.box[4] /\ r.box[4] <= origHeight
                     /\ r.score >= 3
           /\ detectOut.regions =
                  detectTextRegions(<<Output("boxes", kept.boxes),
                                      Output("scores", kept.scores)>>,
                                    origWidth, origHeight).regions
           /\ kept.scores = <<>> => detectOut.regions = <<>>

\* a box reaching out of a 1280 x 640 image on every side is cut to the
\* image; the entry of score 0.2 beside it is dropped
C26_Witness ==
    /\ ocrOutcome = "recognizing"
    /\ origWidth = 1280 /\ origHeight = 640
    /\ results = <<Output("boxes", <<-320, -320, 960, 960, 320, 320, 960, 960>>),
                   Output("scores", <<5, 2>>)>>
    /\ detectOut.regions = <<Region(<<0, 0, 1280, 640>>, 5)>>

(***************************************************************************)
(* SpecFilter: filterOCRLine called on a sequence of raw texts.            *)
(***************************************************************************)
InitFilter == DetectorDefault /\ ScriptOff /\ MergeOff /\ DetectOff /\ FilterInit /\ SysOff /\ DiffOff /\ IntervalOff /\ RecogOff

\* longer raw texts over the characters the bracket, trim and strip steps
\* treat differently
LongAlphabet == {"K", "LQ", "RQ", "IS", "a"}
LongTexts == [1..LongTextLen -> LongAlphabet]

FilterCall ==
    /\ nCalls < MaxCalls
    /\ \E n \in 0..MaxTextLen : \E text \in [1..n -> Alphabet] \cup LongTexts :
          LET r == filterOCRLine(text, recentLines)
          IN /\ recentLines' = r.recentLines
             /\ filterIn' = text
             /\ filterOut' = r.result
             /\ prevIn' = filterIn
             /\ prevOut' = filterOut
             /\ nCalls' = nCalls + 1
    /\ UNCHANGED <<detVars, smVars, mergeVars, detectVars, sysVars, recogVars, diffVars, intervalVars>>

NextFilter == FilterCall
SpecFilter == InitFilter /\ [][NextFilter]_vars

\* C1: of two consecutive calls whose inputs normalise to the same
\* non-empty line, the first of which returned the line, the second
\* returns null.
C1_ConsecutiveRepeatIsSuppressed ==
    (/\ nCalls >= 2
     /\ Normalize(filterIn) = Normalize(prevIn)
     /\ Normalize(filterIn) # <<>>
     /\ prevOut = Line(Normalize(prevIn)))
        => filterOut = NullLine

\* the text as it reaches the bracket step (lines 7-12) and what the steps
\* after it (lines 32-35) make of the text
BeforeBalancing(text) ==
    ReplaceAll(ReplaceAll(ReplaceAll(ReplaceAll(StripAscii(text),
        <<"RQ", "RQ">>, <<"RQ">>), <<"LQ", "LQ">>, <<"LQ">>),
        <<"(">>, <<"LP">>), <<")">>, <<"RP">>)
AfterBalancing(t) == Trim(ReplaceAll(t, <<"HB">>, <<"CH">>))
Occurrences(t, c) == Cardinality({i \in 1..Len(t) : t[i] = c})
Paired(t, open, close) ==
    CASE Occurrences(t, open) > 0 /\ Occurrences(t, close) = 0 -> t \o <<close>>
      [] Occurrences(t, open) = 0 /\ Occurrences(t, close) > 0 -> <<open>> \o t
      [] OTHER -> t

\* C16: the bracket step appends the closing mark to a text with an opening
\* mark and no closing mark, prepends the opening mark to a text with a
\* closing mark and no opening mark, and leaves any other text alone, for
\* the quote pair and then for the full-width parenthesis pair; a kanji,
\* an opening quote and a kanji come out with the closing quote appended,
\* a kanji and a closing quote with the opening quote prepended.
C16_BracketsAreBalanced ==
    nCalls >= 1 =>
        LET t == BeforeBalancing(filterIn)
            expect == AfterBalancing(Paired(Paired(t, "LQ", "RQ"), "LP", "RP"))
        IN /\ filterOut = IF expect = <<>> THEN NullLine ELSE Line(expect)
           /\ filterIn = <<"K", "LQ", "K">> => filterOut = Line(<<"K", "LQ", "K", "RQ">>)
           /\ filterIn = <<"K", "RQ">> => filterOut = Line(<<"LQ", "K", "RQ">>)

\* a call on the text with an unclosed quote, one on a text with an
\* unopened parenthesis
C16_Witness ==
    /\ nCalls = 2
    /\ prevIn = <<"K", "LQ", "K">>
    /\ prevOut = Line(<<"K", "LQ", "K", "RQ">>)
    /\ filterIn = <<"RP", "LQ">>
    /\ filterOut = Line(<<"LP", "RP", "LQ", "RQ">>)

\* C17: normalising a line that filterOCRLine returned gives that line
\* again, N(N(x)) = N(x).
C17_NormalizationIsIdempotent ==
    (nCalls >= 1 /\ ~filterOut.isNull) => Normalize(filterOut.line) = filterOut.line

\* the text is made of ASCII characters only, or of white space only
AllIn(text, S) == \A i \in 1..Len(text) : text[i] \in S

\* C31: a call whose text normalises to the empty text (a text of ASCII
\* characters only or of white space only among them) returns null and
\* leaves recentLines as it was; no call returns the empty text as a line.
C31_EmptyLineIsDropped ==
    [][nCalls' = nCalls + 1 =>
          /\ (\/ Normalize(filterIn') = <<>>
              \/ AllIn(filterIn', AsciiChars)
              \/ AllIn(filterIn', WhiteSpace)) =>
                 (filterOut' = NullLine /\ recentLines' = recentLines)
          /\ ~filterOut'.isNull => filterOut'.line # <<>>]_vars

\* a line was accepted, then a text of ASCII characters only was dropped
C31_Witness ==
    /\ nCalls = 2
    /\ prevOut = Line(<<"K">>)
    /\ filterIn = <<"a", " ">>
    /\ filterOut = NullLine
    /\ recentLines = <<(<<"K">>)>>

\* the first and the last character of an emitted line
FirstOf(l) == l[1]
LastOf(l) == l[Len(l)]

\* C40: every line filterOCRLine emits (a result that is not null) begins
\* and ends with a character that is neither ASCII nor white space, for
\* every raw text.
C40_EmittedLineHasNoAsciiOrSpaceAtEnds ==
    (nCalls > 0 /\ ~filterOut.isNull) =>
        /\ filterOut.line # <<>>
        /\ FirstOf(filterOut.line) \notin AsciiChars \cup WhiteSpace
        /\ LastOf(filterOut.line) \notin AsciiChars \cup WhiteSpace

\* the part of C40 about white space
EmittedLineIsTrimmed ==
    (nCalls > 0 /\ ~filterOut.isNull) =>
        /\ filterOut.line # <<>>
        /\ FirstOf(filterOut.line) \notin WhiteSpace
        /\ LastOf(filterOut.line) \notin WhiteSpace

(***************************************************************************)
(* SpecBuffer: filterOCRLine called often enough to fill recentLines, on   *)
(* texts that it accepts.                                                  *)
(***************************************************************************)
BufferTexts == {<<"K">>, <<"CH">>, <<"K", "HB">>}

BufferCall ==
    /\ nCalls < MaxBufferCalls
    /\ \E text \in BufferTexts :
          LET r == filterOCRLine(text, recentLines)
          IN /\ recentLines' = r.recentLines
             /\ filterIn' = text
             /\ filterOut' = r.result
             /\ prevIn' = filterIn
             /\ prevOut' = filterOut
             /\ nCalls' = nCalls + 1
    /\ UNCHANGED <<detVars, smVars, mergeVars, detectVars, sysVars, recogVars, diffVars, intervalVars>>

NextBuffer == BufferCall
SpecBuffer == InitFilter /\ [][NextBuffer]_vars

\* C18: the buffer never holds more than 10 lines; a call that returns a
\* line puts it behind the lines already held, and when that makes an
\* eleventh line the oldest line, and no other, leaves; a call that
\* returns null leaves the buffer as it was.
C18_BufferHoldsLastTenInOrder ==
    [][nCalls' = nCalls + 1 =>
          LET all == Append(recentLines, filterOut'.line)
          IN /\ Len(recentLines') <= 10
             /\ filterOut'.isNull => recentLines' = recentLines
             /\ ~filterOut'.isNull =>
                    recentLines' = IF Len(recentLines) < 10 THEN all
                                   ELSE SubSeq(all, 2, 11)]_vars

\* the eleventh accepted line is in, the first has left
C18_Witness ==
    /\ nCalls = 11
    /\ ~filterOut.isNull
    /\ Len(recentLines) = 10
    /\ recentLines[10] = filterOut.line
    /\ recentLines[9] = prevOut.line

(***************************************************************************)
(* Spec: the OCR page.  The capture button starts click handlers, the      *)
(* sampler ticks, OCR passes run with their awaits as separate steps.      *)
(* A pass is [stage, dims]: "dialog" while captureWindowScreenshot awaits  *)
(* the crop dialog, "ocr" while MeikiOCR.recognize is awaited.  A click    *)
(* handler is at "init_load" / "init_skip" (awaiting MeikiOCR.init),       *)
(* "media" (awaiting getDisplayMedia), "dialog" (awaiting the crop         *)
(* dialog) or "done".                                                      *)
(***************************************************************************)
ResultTexts == {<<>>, <<"K", "nl">>, <<"a">>}

\* result.text.replace(/\n/g, '').trim()
SingleLine(text) == Trim(SelectSeq(text, LAMBDA c : c # "nl"))

\* windowCapture.isInitialized()
isInitialized == captureStream /\ captureVideo

\* the guard performOCR mutated: the busy flag is never consulted
AlreadyProcessing_Never == FALSE

\* performOCR, lines 91-94: a pass is already running
AlreadyProcessing == isProcessing

\* performOCR() up to its first await
performOCR ==
    /\ triggers' = triggers + 1
    /\ IF AlreadyProcessing
       THEN /\ dropped' = dropped + 1
            /\ UNCHANGED <<isProcessing, passes, lastWindowDimensions>>
       ELSE IF ~isInitialized
       THEN UNCHANGED <<dropped, isProcessing, passes, lastWindowDimensions>>
       ELSE /\ isProcessing' = TRUE
            /\ UNCHANGED dropped
            /\ IF lastWindowDimensions # NoDims /\ lastWindowDimensions # videoDims
               THEN /\ passes' = Append(passes, [stage |-> "dialog", dims |-> videoDims])
                    /\ UNCHANGED lastWindowDimensions
               ELSE /\ passes' = Append(passes, [stage |-> "ocr", dims |-> videoDims])
                    /\ lastWindowDimensions' = videoDims

\* windowCapture.cleanup()
cleanup ==
    /\ captureStream' = FALSE
    /\ captureVideo' = FALSE
    /\ lastWindowDimensions' = NoDims
    /\ listening' = FALSE

\* changeDetector.stop()
stop ==
    /\ intervalId' = FALSE
    /\ state' = "idle"
    /\ lastFrame' = NoFrame
    /\ UNCHANGED <<stableFrameCount, triggeredCount, stabilityFrames, detCrop>>

\* changeDetector.start(captureVideo, cropSettings, performOCR)
start(crop) ==
    /\ intervalId' = TRUE
    /\ detCrop' = crop
    /\ state' = "idle"
    /\ stableFrameCount' = 0
    /\ lastFrame' = NoFrame
    /\ UNCHANGED <<triggeredCount, stabilityFrames>>

\* the catch block of the click handler
HandlerCatch(hs, h) ==
    /\ handlers' = [hs EXCEPT ![h] = "done"]
    /\ cleanup
    /\ stop

\* click handler, lines 156-178, run by handler h of hs
CaptureSection(hs, h) ==
    IF ~isInitialized
    THEN /\ handlers' = [hs EXCEPT ![h] = "media"]
         /\ UNCHANGED <<detVars, captureStream, captureVideo, lastWindowDimensions,
                        listening, isProcessing, passes, triggers, dropped>>
    ELSE /\ triggers < MaxTriggers
         /\ handlers' = [hs EXCEPT ![h] = "done"]
         /\ performOCR
         /\ UNCHANGED <<detVars, captureStream, captureVideo, listening>>

SysFrame == UNCHANGED <<smVars, mergeVars, detectVars, recogVars, diffVars, intervalVars>>
FilterFrame == UNCHANGED <<filterIn, filterOut, prevIn, prevOut, nCalls>>

Init ==
    /\ DetectorDefault /\ ScriptOff /\ MergeOff /\ DetectOff /\ FilterInit /\ RecogOff /\ DiffOff /\ IntervalOff
    /\ timerRunning \in BOOLEAN
    /\ captureStream = FALSE
    /\ captureVideo = FALSE
    /\ capCrop = DefaultCrop
    /\ lastWindowDimensions = NoDims
    /\ videoDims = NoDims
    /\ listening = FALSE
    /\ initialized = FALSE
    /\ ocrInitialized = FALSE
    /\ isProcessing = FALSE
    /\ passes = <<>>
    /\ handlers = <<>>
    /\ lines = <<>>
    /\ triggers = 0
    /\ dropped = 0
    /\ lastError = "none"

\* the capture button is clicked
Click ==
    /\ Len(handlers) < MaxClicks
    /\ LET hs == Append(handlers, "new")
           h == Len(hs)
       IN IF ~ocrInitialized
          THEN /\ handlers' = [hs EXCEPT ![h] = IF initialized THEN "init_skip"
                                                ELSE "init_load"]
               /\ UNCHANGED <<detVars, captureStream, captureVideo,
                              lastWindowDimensions, listening, isProcessing,
                              passes, triggers, dropped>>
          ELSE CaptureSection(hs, h)
    /\ UNCHANGED <<timerRunning, capCrop, videoDims, initialized, ocrInitialized,
                   lines, recentLines>>
    /\ FilterFrame /\ SysFrame /\ UNCHANGED lastError

\* await MeikiOCR.init() resolves
InitDone(h) ==
    /\ handlers[h] \in {"init_load", "init_skip"}
    /\ initialized' = TRUE
    /\ ocrInitialized' = TRUE
    /\ CaptureSection(handlers, h)
    /\ UNCHANGED <<timerRunning, capCrop, videoDims, lines, recentLines>>
    /\ FilterFrame /\ SysFrame /\ UNCHANGED lastError

\* await MeikiOCR.init() rejects: a model failed to load
InitFail(h) ==
    /\ handlers[h] = "init_load"
    /\ HandlerCatch(handlers, h)
    /\ UNCHANGED <<timerRunning, capCrop, videoDims, initialized, ocrInitialized,
                   isProcessing, passes, lines, triggers, dropped,
                   recentLines>>
    /\ FilterFrame /\ SysFrame /\ UNCHANGED lastError

\* await navigator.mediaDevices.getDisplayMedia resolves, the video plays
MediaDone(h) ==
    /\ handlers[h] = "media"
    /\ handlers' = [handlers EXCEPT ![h] = "dialog"]
    /\ captureStream' = TRUE
    /\ captureVideo' = TRUE
    /\ listening' = FALSE
    /\ videoDims' \in VideoSizes
    /\ UNCHANGED <<detVars, timerRunning, capCrop, lastWindowDimensions,
                   initialized, ocrInitialized, isProcessing, passes, lines,
                   triggers, dropped, recentLines>>
    /\ FilterFrame /\ SysFrame /\ UNCHANGED lastError

\* getDisplayMedia rejects: the user dismissed the picker
MediaFail(h) ==
    /\ handlers[h] = "media"
    /\ HandlerCatch(handlers, h)
    /\ UNCHANGED <<timerRunning, capCrop, videoDims, initialized, ocrInitialized,
                   isProcessing, passes, lines, triggers, dropped,
                   recentLines>>
    /\ FilterFrame /\ SysFrame /\ UNCHANGED lastError

\* initializeCaptureStream after the crop dialog, then the rest of the
\* click handler: lines 81-93 of capture.js, 163-171 of index.js
DialogDone(h) ==
    /\ handlers[h] = "dialog"
    /\ handlers' = [handlers EXCEPT ![h] = "done"]
    /\ \E userCropSettings \in Crops :
          /\ capCrop' = userCropSettings
          /\ IF captureVideo
             THEN /\ lastWindowDimensions' = videoDims
                  /\ listening' = TRUE
                  /\ UNCHANGED <<captureStream, captureVideo>>
                  /\ start(userCropSettings)
             ELSE cleanup /\ stop
    /\ UNCHANGED <<timerRunning, videoDims, initialized, ocrInitialized,
                   isProcessing, passes, lines, triggers, dropped,
                   recentLines>>
    /\ FilterFrame /\ SysFrame /\ UNCHANGED lastError

\* the interval callback: checkFrame
Tick ==
    /\ intervalId
    /\ \E lit \in FrameLits :
          LET cur == captureScaledFrame(videoDims, detCrop, lit)
              r == checkFrame(state, stableFrameCount, triggeredCount,
                              stabilityFrames, lastFrame, cur, timerRunning)
          IN /\ state' = r.state
             /\ stableFrameCount' = r.stableFrameCount
             /\ triggeredCount' = r.triggeredCount
             /\ lastFrame' = r.lastFrame
             /\ IF r.fired
                THEN triggers < MaxTriggers /\ performOCR
                ELSE UNCHANGED <<triggers, dropped, isProcessing, passes,
                                 lastWindowDimensions>>
    /\ UNCHANGED <<stabilityFrames, intervalId, detCrop>>
    /\ UNCHANGED <<timerRunning, captureStream, captureVideo, capCrop, videoDims,
                   listening, initialized, ocrInitialized, handlers, lines,
                   recentLines>>
    /\ FilterFrame /\ SysFrame /\ UNCHANGED lastError

RemoveAt(seq, i) == SubSeq(seq, 1, i - 1) \o SubSeq(seq, i + 1, Len(seq))

\* captureWindowScreenshot after its crop dialog, lines 500-541
PassDialogDone(i) ==
    /\ passes[i].stage = "dialog"
    /\ \E userCropSettings \in Crops : capCrop' = userCropSettings
    /\ lastWindowDimensions' = passes[i].dims
    /\ IF captureVideo
       THEN /\ passes' = [passes EXCEPT ![i].stage = "ocr"]
            /\ UNCHANGED <<isProcessing, lastError>>
       ELSE /\ passes' = RemoveAt(passes, i)
            /\ isProcessing' = FALSE
            /\ lastError' = "capture"
    /\ UNCHANGED <<detVars, timerRunning, captureStream, captureVideo, videoDims,
                   listening, initialized, ocrInitialized, handlers, lines,
                   triggers, dropped, recentLines>>
    /\ FilterFrame /\ SysFrame

\* TextHookDisplay.addLine(text)
addLine(text) == IF ~timerRunning THEN lines ELSE Append(lines, text)

\* await MeikiOCR.recognize resolves: lines 115-130, 135 of index.js
PassOcrDone(i) ==
    /\ passes[i].stage = "ocr"
    /\ passes' = RemoveAt(passes, i)
    /\ isProcessing' = FALSE
    /\ \E text \in ResultTexts :
          IF text # <<>>
          THEN LET r == filterOCRLine(SingleLine(text), recentLines)
               IN /\ recentLines' = r.recentLines
                  /\ lines' = IF r.result.isNull THEN lines ELSE addLine(r.result.line)
          ELSE UNCHANGED <<recentLines, lines>>
    /\ UNCHANGED <<detVars, timerRunning, captureStream, captureVideo, capCrop,
                   lastWindowDimensions, videoDims, listening, initialized,
                   ocrInitialized, handlers, triggers, dropped>>
    /\ FilterFrame /\ SysFrame /\ UNCHANGED lastError

\* the finally block mutated: the busy flag is left set
PassOcrFail_StaysBusy(i) ==
    /\ passes[i].stage = "ocr"
    /\ passes' = RemoveAt(passes, i)
    /\ lastError' = "ocr"
    /\ UNCHANGED <<detVars, timerRunning, captureStream, captureVideo, capCrop,
                   lastWindowDimensions, videoDims, listening, initialized,
                   ocrInitialized, isProcessing, handlers, lines, triggers,
                   dropped, recentLines>>
    /\ FilterFrame /\ SysFrame

\* MeikiOCR.recognize rejects: lines 132-135 of index.js
PassOcrFail(i) ==
    /\ passes[i].stage = "ocr"
    /\ passes' = RemoveAt(passes, i)
    /\ isProcessing' = FALSE
    /\ lastError' = "ocr"
    /\ UNCHANGED <<detVars, timerRunning, captureStream, captureVideo, capCrop,
                   lastWindowDimensions, videoDims, listening, initialized,
                   ocrInitialized, handlers, lines, triggers, dropped,
                   recentLines>>
    /\ FilterFrame /\ SysFrame

\* the shared track ends: the 'ended' listener runs cleanup
StreamEnded ==
    /\ listening
    /\ cleanup
    /\ UNCHANGED <<detVars, timerRunning, capCrop, videoDims, initialized,
                   ocrInitialized, isProcessing, passes, handlers, lines,
                   triggers, dropped, recentLines>>
    /\ FilterFrame /\ SysFrame /\ UNCHANGED lastError

\* the shared window is resized
WindowResize ==
    /\ captureVideo
    /\ \E d \in VideoSizes \ {videoDims} : videoDims' = d
    /\ UNCHANGED <<detVars, timerRunning, captureStream, captureVideo, capCrop,
                   lastWindowDimensions, listening, initialized, ocrInitialized,
                   isProcessing, passes, handlers, lines, triggers,
                   dropped, recentLines>>
    /\ FilterFrame /\ SysFrame /\ UNCHANGED lastError

\* Timer.start / Timer.pause
TimerToggle ==
    /\ timerRunning' = ~timerRunning
    /\ UNCHANGED <<detVars, captureStream, captureVideo, capCrop,
                   lastWindowDimensions, videoDims, listening, initialized,
                   ocrInitialized, isProcessing, passes, handlers, lines,
                   triggers, dropped, recentLines>>
    /\ FilterFrame /\ SysFrame /\ UNCHANGED lastError

Next ==
    \/ Click
    \/ \E h \in 1..Len(handlers) : InitDone(h)
    \/ \E h \in 1..Len(handlers) : InitFail(h)
    \/ \E h \in 1..Len(handlers) : MediaDone(h)
    \/ \E h \in 1..Len(handlers) : MediaFail(h)
    \/ \E h \in 1..Len(handlers) : DialogDone(h)
    \/ Tick
    \/ \E i \in 1..Len(passes) : PassDialogDone(i)
    \/ \E i \in 1..Len(passes) : PassOcrDone(i)
    \/ \E i \in 1..Len(passes) : PassOcrFail(i)
    \/ StreamEnded
    \/ WindowResize
    \/ TimerToggle

Spec == Init /\ [][Next]_vars

InFlight == Len(passes)

\* C2: at most one OCR pass is in flight; a trigger that arrives while a
\* pass is in flight is dropped, leaving the pass and everything it works
\* on untouched; and a pass starts only in the step of its own trigger,
\* so a dropped trigger is never replayed when the pass completes.
C2_PassesSerializedTriggersDropped ==
    /\ [](InFlight <= 1)
    /\ [][(triggers' = triggers + 1 /\ InFlight >= 1) =>
            /\ dropped' = dropped + 1
            /\ UNCHANGED <<passes, isProcessing, recentLines, lines,
                           capCrop, lastWindowDimensions>>]_vars
    /\ [][InFlight' > InFlight =>
            (triggers' = triggers + 1 /\ InFlight = 0 /\ InFlight' = 1)]_vars

C2_Witness == InFlight = 1 /\ isProcessing /\ dropped >= 1

\* C3: while an OCR pass is in flight (the busy flag stays set) and no
\* click handler runs, no step changes the detector's state, its stable
\* counter or its last frame: sampler ticks are skipped.
C3_TicksSkippedWhileBusy ==
    [][(isProcessing /\ isProcessing' /\ handlers' = handlers) =>
          UNCHANGED <<state, stableFrameCount, lastFrame>>]_vars

\* C12: when recognize rejects during a pass, the pass ends with no line
\* added, the rolling buffer and the detector's state, stable counter and
\* last frame are as before, the busy flag is cleared (it is set exactly
\* while a pass is in flight), and the next trigger starts a new pass.
C12_FailedPassLeavesStateAndRearms ==
    /\ [](isProcessing <=> passes # <<>>)
    /\ [][\A i \in 1..Len(passes) :
              PassOcrFail(i) =>
                  /\ UNCHANGED <<lines, recentLines, state, stableFrameCount, lastFrame>>
                  /\ ~isProcessing'
                  /\ passes' = <<>>]_vars
    /\ [][(lastError = "ocr" /\ passes = <<>> /\ isInitialized
              /\ triggers' = triggers + 1) =>
             (isProcessing' /\ Len(passes') = 1)]_vars

\* a pass failed, nothing was emitted, and a new pass is in flight
C12_Witness ==
    /\ lastError = "ocr"
    /\ lines = <<>> /\ recentLines = <<>>
    /\ isProcessing /\ Len(passes) = 1
    /\ triggers = 2 /\ dropped = 0

\* C13: a tick that compares two frames of different dimensions (the
\* stored frame and the frame the tick stores in its place) leaves the
\* detector's state and stable counter unchanged.
C13_MismatchedFramesGiveNoSignal ==
    [][(/\ lastFrame.present /\ lastFrame'.present
        /\ (lastFrame'.width # lastFrame.width \/ lastFrame'.height # lastFrame.height))
          => UNCHANGED <<state, stableFrameCount>>]_vars

\* C20: every line filterOCRLine returns (and so pushes on recentLines) is
\* appended by addLine to the stored lines, once, behind the lines stored
\* before it; a step in which the filter returns no line stores none.
C20_AcceptedLinesAreStoredInOrder ==
    [][IF recentLines' # recentLines
       THEN lines' = Append(lines, recentLines'[Len(recentLines')])
       ELSE lines' = lines]_vars

C36_PausedTicksChangeNothing ==
    [][/\ (Tick /\ ~timerRunning) =>
              UNCHANGED <<state, stableFrameCount, lastFrame, triggeredCount,
                          triggers, dropped, passes>>
       /\ (Tick /\ timerRunning /\ lastFrame.present) =>
              \E lit \in FrameLits :
                 LET cur == captureScaledFrame(videoDims, detCrop, lit)
                     r == processStateChange(state, stableFrameCount, triggeredCount,
                                             stabilityFrames, compareFrames(lastFrame, cur))
                 IN /\ lastFrame' = cur
                    /\ state' = r.state
                    /\ stableFrameCount' = r.stableFrameCount]_vars

\* the timer is paused, the detector is started and waits for stability
\* with a stored frame
C36_Witness ==
    /\ ~timerRunning /\ intervalId
    /\ lastFrame.present
    /\ state = "waiting_for_stability" /\ stableFrameCount = 1

\* C37: whenever the sampling timer is set, so at every sampling tick, the
\* crop settings the detector crops its frames with are the crop settings
\* the window capture uses for its screenshots.
C37_DetectorCropsAsCapture ==
    intervalId => detCrop = capCrop

\* C38: whenever the detector's sampling timer is set the window capture
\* is initialized (its stream and its video are present).
C38_RunningDetectorHasCapture ==
    intervalId => isInitialized

\* the click handlers that are at stage st
HandlersAt(st) == {h \in 1..Len(handlers) : handlers[h] = st}

\* no two handlers await a model load each of them started
ModelsLoadedOnce == Cardinality(HandlersAt("init_load")) <= 1

\* no two handlers are inside initializeCaptureStream
StreamSetUpOnce ==
    Cardinality(HandlersAt("media") \cup HandlersAt("dialog")) <= 1

\* C39: under any interleaving of clicks the models are loaded at most once
\* and the capture stream is set up at most once: never are two handlers
\* awaiting a model load they started, and never are two handlers inside
\* initializeCaptureStream.
C39_ModelsAndStreamSetUpOnce == ModelsLoadedOnce /\ StreamSetUpOnce

\* C24: after every step that calls changeDetector.stop() (the catch block
\* of a click handler) or changeDetector.start() (the end of the capture
\* set-up) the detector is idle, its stable counter is 0 and it holds no
\* frame.
C24_StopAndStartResetDetector ==
    [][(\E h \in 1..Len(handlers) : InitFail(h) \/ MediaFail(h) \/ DialogDone(h)) =>
          /\ state' = "idle"
          /\ stableFrameCount' = 0
          /\ ~lastFrame'.present]_vars

(***************************************************************************)
(* MeikiOCR recognition: cropBox, preprocessCropForRecognition,            *)
(* decodeMeikiOCROutput, recognizeTextRegion.  Confidences and the overlap *)
(* ratio are in tenths.  A horizontal interval [cx1, cx2] of the original  *)
(* crop is kept as the numerators x1, x2 over the denominator              *)
(* effectiveWidth.  A candidate also carries idx, its position in the raw  *)
(* output.                                                                 *)
(***************************************************************************)
INPUT_WIDTH == 960
INPUT_HEIGHT == 32
RECOGNIZE_CONFIDENCE == 1
X_OVERLAP == 3

Min2(a, b) == IF a <= b THEN a ELSE b
Max2(a, b) == IF a >= b THEN a ELSE b
\* Math.round(n / d), d > 0
RoundDiv(n, d) == (2 * n + d) \div (2 * d)

\* cropBox mutated: a box as wide as it is high is cropped
cropBox_SquareCropped(box) ==
    LET width == box[3] - box[1]
        height == box[4] - box[2]
    IN IF width < height THEN [isNull |-> TRUE, width |-> 0, height |-> 0]
       ELSE [isNull |-> FALSE, width |-> width, height |-> height]

\* cropBox: the canvas size, or null when the box is not wider than high
cropBox(box) ==
    LET width == box[3] - box[1]
        height == box[4] - box[2]
    IN IF width <= height THEN [isNull |-> TRUE, width |-> 0, height |-> 0]
       ELSE [isNull |-> FALSE, width |-> width, height |-> height]

\* preprocessCropForRecognition: effectiveWidth, origWidth, origHeight
preprocessCropForRecognition(crop) ==
    LET newWidth == RoundDiv(crop.width * INPUT_HEIGHT, crop.height)
    IN [effectiveWidth |-> IF newWidth > INPUT_WIDTH THEN INPUT_WIDTH ELSE newWidth,
        origWidth |-> crop.width,
        origHeight |-> crop.height]

\* lines 430-456: the candidates at or above the confidence threshold
RECURSIVE Candidates(_, _, _, _, _, _, _)
Candidates(labels, boxes, scores, i, effectiveWidth, ow, oh) ==
    IF i > Len(labels) THEN <<>>
    ELSE IF scores[i] < RECOGNIZE_CONFIDENCE
         THEN Candidates(labels, boxes, scores, i + 1, effectiveWidth, ow, oh)
    ELSE LET rx1 == Min2(boxes[4 * i - 3], effectiveWidth)
             rx2 == Min2(boxes[4 * i - 1], effectiveWidth)
             ry1 == boxes[4 * i - 2]
             ry2 == boxes[4 * i]
         IN <<[idx |-> i,
               char |-> labels[i],
               bbox |-> <<(rx1 * ow) \div effectiveWidth,
                          (ry1 * oh) \div INPUT_HEIGHT,
                          (rx2 * ow) \div effectiveWidth,
                          (ry2 * oh) \div INPUT_HEIGHT>>,
               conf |-> scores[i],
               x1 |-> rx1 * ow,
               x2 |-> rx2 * ow]>>
            \o Candidates(labels, boxes, scores, i + 1, effectiveWidth, ow, oh)

\* the sort mutated: least confident first
RECURSIVE InsertByConf_Ascending(_, _)
InsertByConf_Ascending(sorted, c) ==
    IF sorted = <<>> THEN <<c>>
    ELSE IF c.conf < sorted[Len(sorted)].conf
         THEN Append(InsertByConf_Ascending(SubSeq(sorted, 1, Len(sorted) - 1), c),
                     sorted[Len(sorted)])
         ELSE Append(sorted, c)

\* candidates.sort((a, b) => b.conf - a.conf): stable, most confident first
RECURSIVE InsertByConf(_, _)
InsertByConf(sorted, c) ==
    IF sorted = <<>> THEN <<c>>
    ELSE IF c.conf > sorted[Len(sorted)].conf
         THEN Append(InsertByConf(SubSeq(sorted, 1, Len(sorted) - 1), c),
                     sorted[Len(sorted)])
         ELSE Append(sorted, c)

RECURSIVE SortByConf(_)
SortByConf(cs) ==
    IF cs = <<>> THEN <<>>
    ELSE InsertByConf(SortByConf(SubSeq(cs, 1, Len(cs) - 1)), cs[Len(cs)])

\* lines 464-473: overlap > minWidth * X_OVERLAP
CandidatesOverlap(candidate, other) ==
    LET overlap == Min2(candidate.x2, other.x2) - Max2(candidate.x1, other.x1)
        minWidth == Min2(candidate.x2 - candidate.x1, other.x2 - other.x1)
    IN overlap * 10 > minWidth * X_OVERLAP

\* the deduplication mutated: every candidate is accepted
Dedupe_KeepAll(cands, i, accepted) == accepted \o SubSeq(cands, i, Len(cands))

\* lines 461-478: keep a candidate unless it overlaps an accepted one
RECURSIVE Dedupe(_, _, _)
Dedupe(cands, i, accepted) ==
    IF i > Len(cands) THEN accepted
    ELSE IF \E k \in 1..Len(accepted) : CandidatesOverlap(cands[i], accepted[k])
         THEN Dedupe(cands, i + 1, accepted)
         ELSE Dedupe(cands, i + 1, Append(accepted, cands[i]))

\* the sort mutated: rightmost first
RECURSIVE InsertByStart_Descending(_, _)
InsertByStart_Descending(sorted, c) ==
    IF sorted = <<>> THEN <<c>>
    ELSE IF c.x1 > sorted[Len(sorted)].x1
         THEN Append(InsertByStart_Descending(SubSeq(sorted, 1, Len(sorted) - 1), c),
                     sorted[Len(sorted)])
         ELSE Append(sorted, c)

\* accepted.sort((a, b) => a.xInterval[0] - b.xInterval[0]): stable
RECURSIVE InsertByStart(_, _)
InsertByStart(sorted, c) ==
    IF sorted = <<>> THEN <<c>>
    ELSE IF c.x1 < sorted[Len(sorted)].x1
         THEN Append(InsertByStart(SubSeq(sorted, 1, Len(sorted) - 1), c),
                     sorted[Len(sorted)])
         ELSE Append(sorted, c)

RECURSIVE SortByStart(_)
SortByStart(cs) ==
    IF cs = <<>> THEN <<>>
    ELSE InsertByStart(SortByStart(SubSeq(cs, 1, Len(cs) - 1)), cs[Len(cs)])

decodeMeikiOCROutput(labels, boxes, scores, effectiveWidth, ow, oh) ==
    LET candidates == SortByConf(Candidates(labels, boxes, scores, 1,
                                            effectiveWidth, ow, oh))
        accepted == SortByStart(Dedupe(candidates, 1, <<>>))
    IN [text |-> [k \in 1..Len(accepted) |-> accepted[k].char], chars |-> accepted]

(***************************************************************************)
(* SpecDecode: decodeMeikiOCROutput applied to every raw output of at most *)
(* MaxCands characters over a few boxes, confidences and crop sizes.       *)
(***************************************************************************)
CropSizes == {<<128, 16>>, <<64, 32>>}
CharLabels == {"K", "CH"}
CharBoxes == {<<0, 0, 120, 32>>, <<100, 0, 300, 32>>, <<100, 0, 120, 32>>,
              <<120, 0, 300, 32>>}
CharScores == {0, 4, 9}

InitDecode ==
    /\ \E n \in 0..MaxCands :
          \E ls \in [1..n -> CharLabels], bs \in [1..n -> CharBoxes],
             sc \in [1..n -> CharScores], sz \in CropSizes :
              LET pre == preprocessCropForRecognition(
                             [isNull |-> FALSE, width |-> sz[1], height |-> sz[2]])
              IN decIn = [labels |-> ls, boxes |-> Flatten(bs), scores |-> sc,
                          effectiveWidth |-> pre.effectiveWidth,
                          origWidth |-> pre.origWidth, origHeight |-> pre.origHeight]
    /\ decoded = [text |-> <<>>, chars |-> <<>>]
    /\ decPc = "ready"
    /\ recRegions = <<>> /\ recResults = <<>> /\ recIdx = 0 /\ recLines = <<>>
    /\ recOutcome = "off" /\ recText = <<>>
    /\ DetectorDefault /\ ScriptOff /\ MergeOff /\ DetectOff /\ FilterInit /\ SysOff /\ DiffOff /\ IntervalOff

Decode ==
    /\ decPc = "ready"
    /\ decoded' = decodeMeikiOCROutput(decIn.labels, decIn.boxes, decIn.scores,
                                       decIn.effectiveWidth, decIn.origWidth,
                                       decIn.origHeight)
    /\ decPc' = "done"
    /\ UNCHANGED <<decIn, loopVars, detVars, smVars, mergeVars, detectVars,
                   filterVars, sysVars, diffVars, intervalVars>>

NextDecode == Decode
SpecDecode == InitDecode /\ [][NextDecode]_vars

\* the i-th raw character's interval, clamped to the content area
RawStart(i) == Min2(decIn.boxes[4 * i - 3], decIn.effectiveWidth)
RawEnd(i) == Min2(decIn.boxes[4 * i - 1], decIn.effectiveWidth)
\* characters i and j overlap by more than 3/10 of the narrower interval
OverlapBeyond(i, j) ==
    LET common == Min2(RawEnd(i), RawEnd(j)) - Max2(RawStart(i), RawStart(j))
        narrower == Min2(RawEnd(i) - RawStart(i), RawEnd(j) - RawStart(j))
    IN 10 * common > 3 * narrower
Retained(i) == \E k \in 1..Len(decoded.chars) : decoded.chars[k].idx = i

\* C15: a character above the confidence threshold is dropped iff it
\* overlaps, beyond the overlap ratio, a retained character of greater or
\* equal confidence; of two overlapping characters with confidences 0.9
\* and 0.4 only the 0.9 one is retained.
C15_DedupKeepsMoreConfident ==
    decPc = "done" =>
        /\ \A i \in 1..Len(decIn.labels) :
               decIn.scores[i] > RECOGNIZE_CONFIDENCE =>
                   (~Retained(i) <=>
                       \E j \in 1..Len(decIn.labels) :
                           /\ j # i
                           /\ Retained(j)
                           /\ decIn.scores[j] >= decIn.scores[i]
                           /\ OverlapBeyond(i, j))
        /\ \A i, j \in 1..Len(decIn.labels) :
               (Len(decIn.labels) = 2 /\ decIn.scores[i] = 9 /\ decIn.scores[j] = 4
                    /\ OverlapBeyond(i, j)) =>
                   (Retained(i) /\ ~Retained(j) /\ Len(decoded.chars) = 1)

\* the less confident character comes first in the raw output and is dropped
C15_Witness ==
    /\ decPc = "done"
    /\ decIn.scores = <<4, 9>>
    /\ OverlapBeyond(1, 2)
    /\ Len(decoded.chars) = 1
    /\ decoded.chars[1].idx = 2

\* C28: no two retained characters overlap by more than 0.3 of the
\* narrower one's interval; no retained character has a confidence below
\* 0.1; a character of confidence at least 0.1 that is more confident than
\* every other is retained, and whenever some character reaches 0.1 a
\* character of the highest confidence is retained.
C28_AcceptedAreApartAndConfident ==
    decPc = "done" =>
        LET n == Len(decIn.labels)
        IN /\ \A i, j \in 1..n :
                  (i # j /\ Retained(i) /\ Retained(j)) => ~OverlapBeyond(i, j)
           /\ \A i \in 1..n : Retained(i) => decIn.scores[i] >= 1
           /\ \A k \in 1..Len(decoded.chars) : decoded.chars[k].idx \in 1..n
           /\ \A i \in 1..n :
                  (decIn.scores[i] >= 1 /\ \A j \in 1..n : j # i => decIn.scores[j] < decIn.scores[i])
                      => Retained(i)
           /\ (\E i \in 1..n : decIn.scores[i] >= 1) =>
                  \E i \in 1..n :
                      /\ Retained(i)
                      /\ \A j \in 1..n : decIn.scores[j] <= decIn.scores[i]

\* one character below the threshold, then two that overlap: only the
\* more confident of the two is retained
C28_Witness ==
    /\ decPc = "done"
    /\ decIn.scores = <<0, 9, 4>>
    /\ OverlapBeyond(2, 3) /\ OverlapBeyond(1, 2)
    /\ Len(decoded.chars) = 1
    /\ decoded.chars[1].idx = 2

\* C29: the text has one character for each retained raw character and
\* no other, the k-th being the label of the k-th retained character,
\* and the retained characters stand in the order of their interval
\* starts, none starting before its predecessor; when no raw character
\* reaches the confidence threshold the text is empty.
C29_TextIsAcceptedCharsLeftToRight ==
    decPc = "done" =>
        LET n == Len(decIn.labels)
            m == Len(decoded.chars)
        IN /\ Len(decoded.text) = m
           /\ \A k \in 1..m :
                  /\ decoded.chars[k].idx \in 1..n
                  /\ decoded.text[k] = decIn.labels[decoded.chars[k].idx]
           /\ \A k, l \in 1..m : k # l => decoded.chars[k].idx # decoded.chars[l].idx
           /\ \A k \in 1..(m - 1) :
                  RawStart(decoded.chars[k].idx) <= RawStart(decoded.chars[k + 1].idx)
           /\ (\A i \in 1..n : decIn.scores[i] < 1) => decoded.text = <<>>
           /\ (\E i \in 1..n : decIn.scores[i] >= 1) => decoded.text # <<>>

\* two characters side by side, the right one first in the raw output
C29_Witness ==
    /\ decPc = "done"
    /\ decIn.effectiveWidth = 256
    /\ decIn.labels = <<"K", "CH">>
    /\ decIn.boxes = <<120, 0, 300, 32, 0, 0, 120, 32>>
    /\ decIn.scores = <<9, 4>>
    /\ decoded.text = <<"CH", "K">>

\* C30: a raw character whose box starts at or beyond the effective
\* content width is not retained and gives the text no character, and the
\* interval of every retained character, mapped to the crop, lies within
\* 0..crop width (the model keeps the interval times effectiveWidth).
C30_PaddingArtifactsExcluded ==
    decPc = "done" =>
        /\ \A i \in 1..Len(decIn.labels) :
               decIn.boxes[4 * i - 3] >= decIn.effectiveWidth => ~Retained(i)
        /\ \A k \in 1..Len(decoded.chars) :
               /\ 0 <= decoded.chars[k].x1
               /\ decoded.chars[k].x1 <= decoded.chars[k].x2
               /\ decoded.chars[k].x2 <= decIn.origWidth * decIn.effectiveWidth

(***************************************************************************)
(* SpecRecog: stage 2 of recognize, one step per detected region.  The     *)
(* engine output for a region is an input of the step that processes it.   *)
(***************************************************************************)
\* recognizeTextRegion(imageCanvas, box) with the engine output res: the
\* text, whether inference ran, or threw (a TypeError from reading .data of
\* an output that is not there)
recognizeTextRegion(box, res) ==
    LET cropCanvas == cropBox(box)
        pre == preprocessCropForRecognition(cropCanvas)
        decode(labels, boxes, scores) ==
            decodeMeikiOCROutput(labels, boxes, scores, pre.effectiveWidth,
                                 pre.origWidth, pre.origHeight).text
    IN IF cropCanvas.isNull THEN [threw |-> FALSE, text |-> <<>>, ran |-> FALSE]
       ELSE IF HasOutput(res, "labels") /\ HasOutput(res, "boxes") /\ HasOutput(res, "scores")
       THEN [threw |-> FALSE, ran |-> TRUE,
             text |-> decode(OutputData(res, "labels"), OutputData(res, "boxes"),
                             OutputData(res, "scores"))]
       ELSE IF Len(res) < 3 THEN [threw |-> TRUE, text |-> <<>>, ran |-> TRUE]
       ELSE [threw |-> FALSE, ran |-> TRUE,
             text |-> decode(res[1].data, res[2].data, res[3].data)]

\* the join mutated: the texts are strung together without line breaks
RECURSIVE JoinLines_NoBreak(_)
JoinLines_NoBreak(ls) ==
    IF ls = <<>> THEN <<>> ELSE ls[1].text \o JoinLines_NoBreak(Tail(ls))

\* lines.map(line => line.text).join('\n')
RECURSIVE JoinLines(_)
JoinLines(ls) ==
    IF ls = <<>> THEN <<>>
    ELSE IF Len(ls) = 1 THEN ls[1].text
    ELSE ls[1].text \o <<"nl">> \o JoinLines(Tail(ls))

RecBoxes == {<<0, 0, 128, 16>>, <<0, 20, 16, 36>>, <<0, 40, 64, 72>>,
             <<8, 80, 8, 90>>, <<10, 100, 4, 110>>}
RecScores == {5, 9}
RecOutputs ==
    {<<>>,
     <<Output("labels", <<"K">>)>>,
     <<Output("labels", <<>>), Output("boxes", <<>>), Output("scores", <<>>)>>,
     <<Output("labels", <<"K">>), Output("boxes", <<0, 0, 120, 32>>),
       Output("scores", <<9>>)>>,
     <<Output("labels", <<"K">>), Output("boxes", <<0, 0, 120, 32>>),
       Output("scores", <<0>>)>>,
     <<Output("output0", <<"CH">>), Output("output1", <<100, 0, 300, 32>>),
       Output("output2", <<4>>)>>}

\* the regions stage 2 works on are what detectTextRegions returns (lines
\* 320-326) for the detected regions
InitRecog ==
    /\ \E n \in 0..MaxRegions :
          regions \in [1..n -> {Region(b, sc) : b \in RecBoxes, sc \in RecScores}]
    /\ recRegions = SortByTop(mergeOverlappingBoxes(regions))
    /\ groups = <<>> /\ merged = <<>> /\ mergePc = "off"
    /\ recResults = <<>>
    /\ recIdx = 0
    /\ recLines = <<>>
    /\ recOutcome = "running"
    /\ recText = <<>>
    /\ decIn = [labels |-> <<>>, boxes |-> <<>>, scores |-> <<>>,
                effectiveWidth |-> 0, origWidth |-> 0, origHeight |-> 0]
    /\ decoded = [text |-> <<>>, chars |-> <<>>]
    /\ decPc = "off"
    /\ DetectorDefault /\ ScriptOff /\ DetectOff /\ FilterInit /\ SysOff /\ DiffOff /\ IntervalOff

\* one iteration of the loop of lines 584-599; after the last one, lines
\* 601-609; a throw is caught and rethrown at lines 611-613
RecognizeRegion ==
    /\ recOutcome = "running"
    /\ recIdx < Len(recRegions)
    /\ LET region == recRegions[recIdx + 1]
       IN \E res \in (IF cropBox(region.box).isNull THEN {<<>>} ELSE RecOutputs) :
             LET r == recognizeTextRegion(region.box, res)
                 newLines == IF r.text # <<>>
                             THEN Append(recLines, [text |-> r.text, box |-> region.box,
                                                    confidence |-> region.score])
                             ELSE recLines
             IN /\ recResults' = Append(recResults, [ran |-> r.ran, outputs |-> res])
                /\ IF r.threw
                   THEN /\ recOutcome' = "failed"
                        /\ UNCHANGED <<recIdx, recLines, recText>>
                   ELSE /\ recIdx' = recIdx + 1
                        /\ recLines' = newLines
                        /\ IF recIdx + 1 = Len(recRegions)
                           THEN recOutcome' = "done" /\ recText' = JoinLines(newLines)
                           ELSE UNCHANGED <<recOutcome, recText>>
    /\ UNCHANGED <<recRegions, decodeVars, detVars, smVars, mergeVars, detectVars,
                   filterVars, sysVars, diffVars, intervalVars>>

\* lines 559-562: detection found nothing, recognize returns the empty text
NoRegions ==
    /\ recOutcome = "running"
    /\ Len(recRegions) = 0
    /\ recOutcome' = "no_text"
    /\ recText' = <<>>
    /\ UNCHANGED <<recRegions, recResults, recIdx, recLines, decodeVars, detVars,
                   smVars, mergeVars, detectVars, filterVars, sysVars, diffVars, intervalVars>>

NextRecog == RecognizeRegion \/ NoRegions
SpecRecog == InitRecog /\ [][NextRecog]_vars

\* the engine output has neither the three named outputs nor three outputs
\* to fall back to
RecognitionAbsent(res) ==
    ~(HasOutput(res, "labels") /\ HasOutput(res, "boxes") /\ HasOutput(res, "scores"))
    /\ Len(res) < 3

\* C11: a region whose recognition output is absent does not make the
\* pass fail: recognizeTextRegion returns for it and the loop goes on to
\* the regions after it.
C11_AbsentRecognitionIsSkipped ==
    \A k \in 1..Len(recResults) :
        (recResults[k].ran /\ RecognitionAbsent(recResults[k].outputs)) =>
            /\ recOutcome # "failed"
            /\ recIdx >= k

\* C22: a region whose box is not wider than it is high (a square, an
\* empty or an inverted box among them) is skipped: recognizeTextRegion
\* returns the empty text for it without running inference and no line of
\* the result carries its box.
C22_NarrowRegionIsSkipped ==
    \A k \in 1..Len(recResults) :
        LET box == recRegions[k].box
        IN box[3] - box[1] <= box[4] - box[2] =>
              /\ ~recResults[k].ran
              /\ recognizeTextRegion(box, recResults[k].outputs) =
                     [threw |-> FALSE, text |-> <<>>, ran |-> FALSE]
              /\ \A j \in 1..Len(recLines) : recLines[j].box # box

\* a wide region gave the result its only line and the square region
\* after it was skipped
C22_Witness ==
    /\ recOutcome = "done"
    /\ Len(recRegions) = 2
    /\ recRegions[1].box = <<0, 0, 128, 16>>
    /\ recRegions[2].box = <<0, 20, 16, 36>>
    /\ recResults[1].ran /\ ~recResults[2].ran
    /\ Len(recLines) = 1 /\ recLines[1].box = <<0, 0, 128, 16>>
    /\ recText # <<>>

\* the place of the region with this box in the list stage 2 works on
PlaceOf(box) == CHOOSE k \in 1..Len(recRegions) : recRegions[k].box = box

\* C27: the regions detectTextRegions returns are in the order of their
\* top edges, each top edge at most the next one's, and stage 2 takes them
\* in that order: the k-th inference is that of the k-th region and the
\* lines of the result follow the order of their regions.
C27_RegionsTopToBottom ==
    /\ \A k \in 1..(Len(recRegions) - 1) : recRegions[k].box[2] <= recRegions[k + 1].box[2]
    /\ Len(recResults) = recIdx + (IF recOutcome = "failed" THEN 1 ELSE 0)
    /\ \A j \in 1..Len(recLines) :
           /\ \E k \in 1..recIdx : recRegions[k].box = recLines[j].box
           /\ j < Len(recLines) =>
                  /\ PlaceOf(recLines[j].box) < PlaceOf(recLines[j + 1].box)
                  /\ recLines[j].box[2] <= recLines[j + 1].box[2]

\* two regions detected bottom first, recognized top first
C27_Witness ==
    /\ recOutcome = "done"
    /\ Len(regions) = 2
    /\ regions[1].box = <<0, 40, 64, 72>> /\ regions[2].box = <<0, 0, 128, 16>>
    /\ Len(recLines) = 2
    /\ recLines[1].box = <<0, 0, 128, 16>> /\ recLines[2].box = <<0, 40, 64, 72>>

\* the text recognizeTextRegion gave for the k-th region
RegionText(k) == recognizeTextRegion(recRegions[k].box, recResults[k].outputs).text
NonEmptyTexts ==
    SelectSeq([k \in 1..Len(recResults) |-> RegionText(k)], LAMBDA t : t # <<>>)
RECURSIVE WithBreaks(_)
WithBreaks(ts) ==
    IF ts = <<>> THEN <<>>
    ELSE IF Len(ts) = 1 THEN ts[1]
    ELSE ts[1] \o <<"nl">> \o WithBreaks(Tail(ts))

\* C32: the text recognize returns is made of the non-empty region texts,
\* in the order of the regions, with one line break between two of them
\* and none before the first or after the last; a region of empty text
\* gives no line; with no detected region the text is empty and no
\* inference has run.
C32_TextJoinsNonEmptyRegionTexts ==
    /\ recOutcome = "done" =>
           /\ Len(recResults) = Len(recRegions)
           /\ [j \in 1..Len(recLines) |-> recLines[j].text] = NonEmptyTexts
           /\ recText = WithBreaks(NonEmptyTexts)
    /\ recOutcome = "no_text" =>
           (recRegions = <<>> /\ recText = <<>> /\ recResults = <<>> /\ recLines = <<>>)
    /\ (recRegions = <<>> /\ recOutcome # "no_text") =>
           (recOutcome = "running" /\ recResults = <<>>)

\* two regions with text: two lines, one break
C32_Witness ==
    /\ recOutcome = "done"
    /\ Len(recRegions) = 2
    /\ Len(recLines) = 2
    /\ recText = <<"K", "nl", "CH">>

(***************************************************************************)
(* SpecDiff: compareFrames applied to every pair of frames of at most      *)
(* MaxFrameWidth x MaxFrameHeight pixels, in both orders and to a frame    *)
(* and itself.                                                             *)
(***************************************************************************)
SmallFrames ==
    {[present |-> TRUE, width |-> w, height |-> h, lit |-> l] :
        w \in 1..MaxFrameWidth, h \in 1..MaxFrameHeight,
        l \in 0..(MaxFrameWidth * MaxFrameHeight)}

\* frames given by their data arrays: no pixel at all, one pixel, two
\* pixels; the colours differ from black by 0, 20, 21 and 765, and the
\* alpha byte is 0 or 255
PixelColours == {<<0, 0, 0>>, <<7, 7, 6>>, <<7, 7, 7>>, <<255, 255, 255>>}
PixelAlphas == {0, 255}
PixelValues == {<<c[1], c[2], c[3], a>> : c \in PixelColours, a \in PixelAlphas}
PixelFrames ==
    {[present |-> TRUE, width |-> 0, height |-> 0, pixels |-> <<>>]}
    \cup {[present |-> TRUE, width |-> 1, height |-> 1, pixels |-> <<v>>] :
              v \in PixelValues}
    \cup {[present |-> TRUE, width |-> 2, height |-> 1, pixels |-> <<v, w>>] :
              v \in PixelValues, w \in PixelValues}

InitDiff ==
    /\ \/ /\ frameA \in {f \in SmallFrames : f.lit <= f.width * f.height}
          /\ frameB \in {f \in SmallFrames : f.lit <= f.width * f.height}
       \/ /\ frameA \in PixelFrames
          /\ frameB \in PixelFrames
    /\ diffAB = Frac(0, 1)
    /\ diffBA = Frac(0, 1)
    /\ diffAA = Frac(0, 1)
    /\ diffPc = "ready"
    /\ DetectorDefault /\ ScriptOff /\ MergeOff /\ DetectOff /\ FilterInit /\ RecogOff
    /\ SysOff /\ IntervalOff

Compare ==
    /\ diffPc = "ready"
    /\ diffAB' = compareFrames(frameA, frameB)
    /\ diffBA' = compareFrames(frameB, frameA)
    /\ diffAA' = compareFrames(frameA, frameA)
    /\ diffPc' = "done"
    /\ UNCHANGED <<frameA, frameB, detVars, smVars, mergeVars, detectVars,
                   filterVars, sysVars, recogVars, intervalVars>>

NextDiff == Compare
SpecDiff == InitDiff /\ [][NextDiff]_vars

\* two fractions are the same number (a 0/0 is not a number)
SameFraction(a, b) == a.den # 0 /\ b.den # 0 /\ a.num * b.den = b.num * a.den

\* C14: compareFrames(A, A) is 0 and compareFrames(A, B) equals
\* compareFrames(B, A), for every frame A and every frame B.
C14_DifferZeroOnSelfAndSymmetric ==
    diffPc = "done" =>
        /\ SameFraction(diffAA, Frac(0, 1))
        /\ SameFraction(diffAB, diffBA)

\* the pixels of frame a whose red, green and blue values differ from
\* those of frame b by more than pixelDiffThreshold in sum
ChangedPixels(a, b) ==
    {p \in 0..(a.width * a.height - 1) :
        Abs(Pixel(a, p)[1] - Pixel(b, p)[1]) + Abs(Pixel(a, p)[2] - Pixel(b, p)[2])
            + Abs(Pixel(a, p)[3] - Pixel(b, p)[3]) > pixelDiffThreshold}

\* the frame with every alpha byte set to 255
Opaque(f) ==
    IF "pixels" \in DOMAIN f
    THEN [f EXCEPT !.pixels = [p \in DOMAIN f.pixels |->
                                  <<f.pixels[p][1], f.pixels[p][2], f.pixels[p][3], 255>>]]
    ELSE f

SameDimensions == frameA.width = frameB.width /\ frameA.height = frameB.height

\* C33: for every pair of frames of the same dimensions, frames with no
\* pixel included, compareFrames returns a number between 0 and 1 that is
\* the count of pixels whose summed red, green and blue difference exceeds
\* pixelDiffThreshold over the count of all pixels, whatever the alpha
\* bytes are.
C33_FractionOfChangedPixels ==
    (diffPc = "done" /\ SameDimensions) =>
        /\ diffAB.den # 0
        /\ 0 <= diffAB.num /\ diffAB.num <= diffAB.den
        /\ SameFraction(diffAB, Frac(Cardinality(ChangedPixels(frameA, frameB)),
                                     frameA.width * frameA.height))
        /\ diffAB = compareFrames(Opaque(frameA), Opaque(frameB))

\* the same statement for frames that have at least one pixel
FractionOfChangedPixelsIfNonEmpty ==
    (diffPc = "done" /\ SameDimensions /\ frameA.width * frameA.height > 0) =>
        /\ diffAB.den # 0
        /\ 0 <= diffAB.num /\ diffAB.num <= diffAB.den
        /\ SameFraction(diffAB, Frac(Cardinality(ChangedPixels(frameA, frameB)),
                                     frameA.width * frameA.height))
        /\ diffAB = compareFrames(Opaque(frameA), Opaque(frameB))

(***************************************************************************)
(* The sampling timer of the ChangeDetector on its own: start and stop     *)
(* called in any order, and the callbacks of the interval timers the       *)
(* browser holds.  window.Timer is absent, so a callback always looks at   *)
(* its frame.  The video is 48 x 64 and the crop is the default one.       *)
(***************************************************************************)
MaxStarts == 3

\* stop(), lines 60-63, mutated: the id is forgotten, the timer is not
\* cleared
stopInterval_NotCleared(h, ivs) == [intervalId |-> 0, intervals |-> ivs]

\* stop(), lines 60-63: clearInterval(this.intervalId) and
\* this.intervalId = null, if the id is set
stopInterval(h, ivs) ==
    IF h # 0 THEN [intervalId |-> 0, intervals |-> ivs \ {h}]
    ELSE [intervalId |-> h, intervals |-> ivs]

InitTimer ==
    /\ DetectorInit /\ ScriptOff /\ MergeOff /\ DetectOff /\ FilterInit /\ RecogOff
    /\ SysOff /\ DiffOff /\ IntervalOff

\* changeDetector.start(video, cropSettings, onTrigger)
DetectorStart ==
    /\ nextHandle <= MaxStarts
    /\ start(DefaultCrop)
    /\ intervals' = stopInterval(intervalHandle, intervals).intervals \cup {nextHandle}
    /\ intervalHandle' = nextHandle
    /\ nextHandle' = nextHandle + 1
    /\ lastCall' = "start"
    /\ UNCHANGED firedStopped
    /\ UNCHANGED <<smVars, mergeVars, detectVars, filterVars, sysVars, recogVars,
                   diffVars>>

\* changeDetector.stop()
DetectorStop ==
    /\ stop
    /\ intervals' = stopInterval(intervalHandle, intervals).intervals
    /\ intervalHandle' = stopInterval(intervalHandle, intervals).intervalId
    /\ lastCall' = "stop"
    /\ UNCHANGED <<nextHandle, firedStopped>>
    /\ UNCHANGED <<smVars, mergeVars, detectVars, filterVars, sysVars, recogVars,
                   diffVars>>

\* the callback of an active interval timer: () => this.checkFrame()
IntervalCallback ==
    \E id \in intervals : \E lit \in FrameLits :
        LET cur == captureScaledFrame(Dims(48, 64), detCrop, lit)
            r == checkFrame(state, stableFrameCount, triggeredCount,
                            stabilityFrames, lastFrame, cur, TRUE)
        IN /\ r.fired => triggeredCount < MaxTriggers
           /\ state' = r.state
           /\ stableFrameCount' = r.stableFrameCount
           /\ triggeredCount' = r.triggeredCount
           /\ lastFrame' = r.lastFrame
           /\ firedStopped' = (firedStopped \/ (r.fired /\ lastCall = "stop"))
           /\ UNCHANGED <<stabilityFrames, intervalId, detCrop, intervals,
                          intervalHandle, nextHandle, lastCall>>
           /\ UNCHANGED <<smVars, mergeVars, detectVars, filterVars, sysVars,
                          recogVars, diffVars>>

NextTimer == DetectorStart \/ DetectorStop \/ IntervalCallback
SpecTimer == InitTimer /\ [][NextTimer]_vars

\* isRunning(): this.intervalId !== null
isRunning == intervalHandle # 0

\* C35: after any sequence of start and stop calls at most one interval
\* timer is active, one is active exactly when isRunning() is true (and it
\* is the one whose id the detector holds), and no trigger has fired
\* between a stop() and the next start().
C35_AtMostOneTimerAndNoneAfterStop ==
    /\ Cardinality(intervals) <= 1
    /\ (intervals # {}) <=> isRunning
    /\ intervals \subseteq {intervalHandle}
    /\ intervalId <=> isRunning
    /\ lastCall = "stop" => intervals = {}
    /\ ~firedStopped

\* start, a trigger, start again, stop: the second timer replaced the first
\* and stop left none
C35_Witness ==
    /\ lastCall = "stop"
    /\ nextHandle = 3
    /\ triggeredCount = 1
    /\ intervals = {}
    /\ ~isRunning

====
